---------------------------- MODULE Spec2Model ----------------------------
(***************************************************************************)
(* Spatial layout engine of hyprmon (models.go): rotation-aware effective  *)
(* dimensions, the world <-> terminal coordinate maps, hit testing, the    *)
(* magnetic snap resolver and the world bounds updater.                    *)
(*                                                                         *)
(* Numbers.  Positions are int32 in the source; every value reached here   *)
(* is far from the int32 limits, so plain integers are used.  Scale is a   *)
(* float32 in the source.  It is modelled as an exact fraction <<n, d>>    *)
(* with d a power of two and n small: such a Scale is exactly a float32,   *)
(* float32(PxW) is exact, and the exact quotient PxW*d/n lies at least 1/n *)
(* away from the next integer unless it is one, which is far more than the *)
(* rounding error of one float32 division; so int32(float32(PxW)/Scale)    *)
(* is the truncated exact quotient.  The same argument covers termToWorld  *)
(* (products below 2^24, small divisors).                                  *)
(***************************************************************************)
EXTENDS Integers, Sequences, FiniteSets, TLC

VARIABLES
    Monitors,     \* model.Monitors : sequence of Monitor records
    Selected,     \* model.Selected : Go index (0-based) of the selected monitor
    Snap,         \* model.Snap     : SnapMode
    SnapThresh,   \* model.SnapThresh
    World,        \* model.World    : world record
    Guides,       \* model.Guides   : sequence of guide records
    ret,          \* the last call made on the model and what it returned
    GridPx,       \* model.GridPx
    ShowHelp,             \* model.ShowHelp
    ShowProfileInput,     \* model.ShowProfileInput
    ShowScalePicker,      \* model.ShowScalePicker
    ShowModePicker,       \* model.ShowModePicker
    ShowMirrorPicker,     \* model.ShowMirrorPicker
    ShowAdvancedSettings, \* model.ShowAdvancedSettings
    ProfileInput,         \* model.ProfileInput : profileInputModel
    ScalePicker,          \* model.ScalePicker : scalePickerModel
    ModePicker,           \* model.ModePicker : modePickerModel
    MirrorPicker,         \* model.MirrorPicker : mirrorPickerModel
    AdvancedSettings,     \* model.AdvancedSettings : advancedSettingsModel
    pending,      \* the commands Update has returned that are still running
    tty,          \* the size of the host terminal, <<columns, rows>>
    notified,     \* the size the last tea.WindowSizeMsg carried, or NoSize
    previousMonitors, \* the package variable previousMonitors, or NoRollback
    hypr,         \* the monitor list the compositor reports to readMonitors
    count         \* how many events of each bounded kind have been handled

\* the overlay flags, in the order Update tests them
overlayVars ==
    <<ShowHelp, ShowProfileInput, ShowScalePicker, ShowModePicker,
      ShowMirrorPicker, ShowAdvancedSettings>>

\* the state of the interactive session around the layout engine
uiVars ==
    <<GridPx, overlayVars, ProfileInput, ScalePicker, ModePicker, MirrorPicker,
      AdvancedSettings, pending, tty, notified, previousMonitors, hypr, count>>

vars == <<Monitors, Selected, Snap, SnapThresh, World, Guides, ret, uiVars>>

-----------------------------------------------------------------------------
(* Program constants *)

SnapOff == 0
SnapEdges == 1
SnapCenters == 2
SnapBoth == 3

defaultWorldWidth == 3840
defaultWorldHeight == 2160
defaultWorldScale == 1
worldPaddingPx == 500
desktopBorderMargin == 3
desktopFooterHeight == 10

-----------------------------------------------------------------------------
(* Arithmetic of the source *)

\* Go's conversion of a float quotient a/b to int32 truncates toward zero.
TruncDiv(a, b) ==
    IF b > 0
    THEN IF a >= 0 THEN a \div b ELSE -((-a) \div b)
    ELSE IF a >= 0 THEN -(a \div (-b)) ELSE (-a) \div (-b)

MinInt32 == (0 - 2147483647) - 1
MaxInt32 == 2147483647

\* abs on int32: the negation of the least int32 wraps to itself
abs(x) == IF x < 0 THEN (IF x = MinInt32 THEN MinInt32 ELSE -x) ELSE x

\* the number of binary digits of q
RECURSIVE BitLen(_)
BitLen(q) == IF q = 0 THEN 0 ELSE 1 + BitLen(q \div 2)

\* binary long division: <<q, r>> with a * d = q * b + r and r < b, from
\* <<a \div b, a % b>>, for d a power of two
RECURSIVE LongDiv(_, _, _, _)
LongDiv(q, r, b, d) ==
    IF d = 1 THEN <<q, r>>
    ELSE IF 2 * r >= b THEN LongDiv(2 * q + 1, 2 * r - b, b, d \div 2)
         ELSE LongDiv(2 * q, 2 * r, b, d \div 2)

\* int32(float32(px) / scale) for any float32 scale n/d: the exact quotient
\* q + r/n is rounded to the 24 digits of a float32 and then truncated, so
\* the result is q + 1 when the quotient is within half a unit in the last
\* place of the next integer, and q otherwise
QuotF32(px, scale) ==
    LET b == scale[1]
        qr == LongDiv(px \div b, px % b, b, scale[2])
        q == qr[1]
        r == qr[2]
    IN  IF r # 0 /\ (b - r) <= b \div (2 ^ (25 - BitLen(q))) THEN q + 1 ELSE q

\* int32(float32(px) / scale), scale = <<n, d>> standing for n/d; for the
\* short fractions the truncated exact quotient is the result (see above)
ScaledPx(px, scale) ==
    IF scale[2] <= 4 THEN TruncDiv(px * scale[2], scale[1]) ELSE QuotF32(px, scale)

-----------------------------------------------------------------------------
(* float32 arithmetic on Scale.  A float32 below 8 and not below 1/16 is   *)
(* a whole number of units of 2^-28; sums are formed in these units and    *)
(* rounded to nearest, ties to even, as the hardware does.                 *)

ScaleUnit == 268435456

ScaleUnits(scale) == scale[1] * (ScaleUnit \div scale[2])

\* the fraction n/d in lowest terms, d a power of two
RECURSIVE NormF32(_, _)
NormF32(n, d) ==
    IF d > 1 /\ n % 2 = 0 THEN NormF32(n \div 2, d \div 2) ELSE <<n, d>>

ScaleOfUnits(u) == NormF32(u, ScaleUnit)

\* a positive sum in units, rounded to a float32
RoundF32(u) ==
    LET ulp == IF BitLen(u) <= 24 THEN 1 ELSE 2 ^ (BitLen(u) - 24)
        q == u \div ulp
        r == u % ulp
    IN  IF 2 * r > ulp \/ (2 * r = ulp /\ q % 2 = 1)
        THEN (q + 1) * ulp
        ELSE q * ulp

\* float32(0.05) in units
ScaleDelta == 13421773

\* a variant of clamp without the upper limit
clamp_NoUpperLimit(v, min, max) == IF v < min THEN min ELSE v

\* clamp: math.Max(min, math.Min(max, v)), on units
clamp(v, min, max) ==
    LET least == IF v < max THEN v ELSE max
    IN  IF least > min THEN least ELSE min

\* clamp(mon.Scale + sign * delta, 0.5, 3.0)
ScaleStep(scale, sign) ==
    ScaleOfUnits(clamp(RoundF32(ScaleUnits(scale) + sign * ScaleDelta),
                       ScaleUnit \div 2, 3 * ScaleUnit))

-----------------------------------------------------------------------------
(* Geometry primitives *)

IsQuarterTurn(t) == t = 1 \/ t = 3 \/ t = 5 \/ t = 7

\* a variant that swaps for plain rotations only (Transform 1 and 3)
getEffectiveDimensions_RotationsOnly(mon) ==
    LET scaledWidth == ScaledPx(mon.PxW, mon.Scale)
        scaledHeight == ScaledPx(mon.PxH, mon.Scale)
    IN  IF mon.Transform = 1 \/ mon.Transform = 3
        THEN <<scaledHeight, scaledWidth>>
        ELSE <<scaledWidth, scaledHeight>>

\* getEffectiveDimensions: <<width, height>>
getEffectiveDimensions(mon) ==
    LET scaledWidth == ScaledPx(mon.PxW, mon.Scale)
        scaledHeight == ScaledPx(mon.PxH, mon.Scale)
    IN  IF IsQuarterTurn(mon.Transform)
        THEN <<scaledHeight, scaledWidth>>
        ELSE <<scaledWidth, scaledHeight>>

-----------------------------------------------------------------------------
(* Coordinate transform *)

\* termToWorld on a given world: <<worldX, worldY>>
termToWorldIn(w, x, y) ==
    LET desktopWidth == w.TermW - desktopBorderMargin
        desktopHeight == w.TermH - desktopFooterHeight
    IN  << TruncDiv(x * w.Width, desktopWidth) + w.OffsetX,
           TruncDiv(y * w.Height, desktopHeight) + w.OffsetY >>

termToWorld(x, y) == termToWorldIn(World, x, y)

\* a variant that spreads the canvas over the whole terminal width and
\* height, border and footer included
worldToTermIn_WholeTerminal(w, x, y) ==
    << TruncDiv((x - w.OffsetX) * w.TermW, w.Width),
       TruncDiv((y - w.OffsetY) * w.TermH, w.Height) >>

\* worldToTerm on a given world: <<termX, termY>>.  The products stay below
\* 2^24, so the float32 product is exact and the conversion of the float32
\* quotient truncates the exact quotient toward zero.
worldToTermIn(w, x, y) ==
    LET desktopWidth == w.TermW - desktopBorderMargin
        desktopHeight == w.TermH - desktopFooterHeight
    IN  << TruncDiv((x - w.OffsetX) * desktopWidth, w.Width),
           TruncDiv((y - w.OffsetY) * desktopHeight, w.Height) >>

worldToTerm(x, y) == worldToTermIn(World, x, y)

\* int32 of a float32 that is infinite or not a number (a quotient by zero):
\* Go leaves the result to the implementation; amd64 gives the least int32,
\* arm64 saturates and turns NaN into zero
Int32OfNonFinite == {MinInt32, MaxInt32, 0}

\* the values one axis of termToWorld can return: offset + int32(float32(c) *
\* float32(size) / float32(desktop))
termToWorldAxis(c, size, desktop, offset) ==
    IF desktop = 0
    THEN { v + offset : v \in Int32OfNonFinite }
    ELSE { TruncDiv(c * size, desktop) + offset }

\* every result termToWorld can return on a given world
termToWorldOutcomes(w, x, y) ==
    LET desktopWidth == w.TermW - desktopBorderMargin
        desktopHeight == w.TermH - desktopFooterHeight
    IN  IF desktopWidth # 0 /\ desktopHeight # 0
        THEN { termToWorldIn(w, x, y) }
        ELSE { <<wx, wy>> :
                 wx \in termToWorldAxis(x, w.Width, desktopWidth, w.OffsetX),
                 wy \in termToWorldAxis(y, w.Height, desktopHeight, w.OffsetY) }

-----------------------------------------------------------------------------
(* Hit tester *)

\* a variant whose right and bottom edges are inclusive
hitBox_ClosedBox(mon, wx, wy) ==
    LET eff == getEffectiveDimensions(mon)
    IN  /\ wx >= mon.X /\ wx <= mon.X + eff[1]
        /\ wy >= mon.Y /\ wy <= mon.Y + eff[2]

\* the test of the loop body of hitTest for one monitor
hitBox(mon, wx, wy) ==
    LET eff == getEffectiveDimensions(mon)
        effectiveWidth == eff[1]
        effectiveHeight == eff[2]
    IN  /\ wx >= mon.X /\ wx < mon.X + effectiveWidth
        /\ wy >= mon.Y /\ wy < mon.Y + effectiveHeight

\* the loop of hitTest from TLA+ index i on; returns a Go index or -1
RECURSIVE hitLoop(_, _, _)
hitLoop(i, wx, wy) ==
    IF i > Len(Monitors) THEN -1
    ELSE IF hitBox(Monitors[i], wx, wy) THEN i - 1
    ELSE hitLoop(i + 1, wx, wy)

hitTest(x, y) ==
    LET w == termToWorld(x, y)
    IN  hitLoop(1, w[1], w[2])

-----------------------------------------------------------------------------
(* Snap resolver.  The accumulator acc = [newX, newY, guides] is the       *)
(* triple of locals of snapPosition.                                       *)

guide(type, value) == [Type |-> type, Value |-> value]

\* a variant with three independent ifs: each later match overwrites
snapEdgesX_LastWins(acc, x, monEffectiveWidth, other, otherEffectiveWidth, thresh) ==
    LET r1 == IF abs(x - other.X - otherEffectiveWidth) < thresh
              THEN [acc EXCEPT !.newX = other.X + otherEffectiveWidth,
                               !.guides = Append(@, guide("vertical", other.X + otherEffectiveWidth))]
              ELSE acc
        r2 == IF abs(x + monEffectiveWidth - other.X) < thresh
              THEN [r1 EXCEPT !.newX = other.X - monEffectiveWidth,
                              !.guides = Append(@, guide("vertical", other.X))]
              ELSE r1
    IN  IF abs(x - other.X) < thresh
        THEN [r2 EXCEPT !.newX = other.X,
                        !.guides = Append(@, guide("vertical", other.X))]
        ELSE r2

\* lines 263-272: the if / else-if chain on the X axis
snapEdgesX(acc, x, monEffectiveWidth, other, otherEffectiveWidth, thresh) ==
    IF abs(x - other.X - otherEffectiveWidth) < thresh
    THEN [acc EXCEPT !.newX = other.X + otherEffectiveWidth,
                     !.guides = Append(@, guide("vertical", other.X + otherEffectiveWidth))]
    ELSE IF abs(x + monEffectiveWidth - other.X) < thresh
    THEN [acc EXCEPT !.newX = other.X - monEffectiveWidth,
                     !.guides = Append(@, guide("vertical", other.X))]
    ELSE IF abs(x - other.X) < thresh
    THEN [acc EXCEPT !.newX = other.X,
                     !.guides = Append(@, guide("vertical", other.X))]
    ELSE acc

\* a variant whose threshold tests are inclusive
snapEdgesY_Inclusive(acc, y, monEffectiveHeight, other, otherEffectiveHeight, thresh) ==
    IF abs(y - other.Y - otherEffectiveHeight) <= thresh
    THEN [acc EXCEPT !.newY = other.Y + otherEffectiveHeight,
                     !.guides = Append(@, guide("horizontal", other.Y + otherEffectiveHeight))]
    ELSE IF abs(y + monEffectiveHeight - other.Y) <= thresh
    THEN [acc EXCEPT !.newY = other.Y - monEffectiveHeight,
                     !.guides = Append(@, guide("horizontal", other.Y))]
    ELSE IF abs(y - other.Y) <= thresh
    THEN [acc EXCEPT !.newY = other.Y,
                     !.guides = Append(@, guide("horizontal", other.Y))]
    ELSE acc

\* lines 274-283: the if / else-if chain on the Y axis
snapEdgesY(acc, y, monEffectiveHeight, other, otherEffectiveHeight, thresh) ==
    IF abs(y - other.Y - otherEffectiveHeight) < thresh
    THEN [acc EXCEPT !.newY = other.Y + otherEffectiveHeight,
                     !.guides = Append(@, guide("horizontal", other.Y + otherEffectiveHeight))]
    ELSE IF abs(y + monEffectiveHeight - other.Y) < thresh
    THEN [acc EXCEPT !.newY = other.Y - monEffectiveHeight,
                     !.guides = Append(@, guide("horizontal", other.Y))]
    ELSE IF abs(y - other.Y) < thresh
    THEN [acc EXCEPT !.newY = other.Y,
                     !.guides = Append(@, guide("horizontal", other.Y))]
    ELSE acc

\* a variant that subtracts the moving monitor's whole width
snapCentersX_WholeWidth(acc, x, monEffectiveWidth, other, otherEffectiveWidth, thresh) ==
    LET monCenterX == x + (monEffectiveWidth \div 2)
        otherCenterX == other.X + (otherEffectiveWidth \div 2)
    IN  IF abs(monCenterX - otherCenterX) < thresh
        THEN [acc EXCEPT !.newX = otherCenterX - monEffectiveWidth,
                         !.guides = Append(@, guide("vertical", otherCenterX))]
        ELSE acc

\* lines 291-299: center snap on X (widths are positive: /2 is \div 2)
snapCentersX(acc, x, monEffectiveWidth, other, otherEffectiveWidth, thresh) ==
    LET monCenterX == x + (monEffectiveWidth \div 2)
        otherCenterX == other.X + (otherEffectiveWidth \div 2)
    IN  IF abs(monCenterX - otherCenterX) < thresh
        THEN [acc EXCEPT !.newX = otherCenterX - (monEffectiveWidth \div 2),
                         !.guides = Append(@, guide("vertical", otherCenterX))]
        ELSE acc

\* lines 292-304: center snap on Y
snapCentersY(acc, y, monEffectiveHeight, other, otherEffectiveHeight, thresh) ==
    LET monCenterY == y + (monEffectiveHeight \div 2)
        otherCenterY == other.Y + (otherEffectiveHeight \div 2)
    IN  IF abs(monCenterY - otherCenterY) < thresh
        THEN [acc EXCEPT !.newY = otherCenterY - (monEffectiveHeight \div 2),
                         !.guides = Append(@, guide("horizontal", otherCenterY))]
        ELSE acc

\* a variant that skips the selected monitor only
snapConsiders_Inactive(mons, sel, i) == ~(i - 1 = sel)

\* line 254: the monitors the loop does not skip (i is a TLA+ index)
snapConsiders(mons, sel, i) == ~(i - 1 = sel \/ ~mons[i].Active)

\* a variant that sizes both monitors without regard to rotation
snapBody_RawDims(acc, mode, thresh, mon, other, x, y) ==
    LET monW == ScaledPx(mon.PxW, mon.Scale)
        monH == ScaledPx(mon.PxH, mon.Scale)
        otherW == ScaledPx(other.PxW, other.Scale)
        otherH == ScaledPx(other.PxH, other.Scale)
        a1 == IF mode = SnapEdges \/ mode = SnapBoth
              THEN snapEdgesY(snapEdgesX(acc, x, monW, other, otherW, thresh),
                              y, monH, other, otherH, thresh)
              ELSE acc
    IN  IF mode = SnapCenters \/ mode = SnapBoth
        THEN snapCentersY(snapCentersX(a1, x, monW, other, otherW, thresh),
                          y, monH, other, otherH, thresh)
        ELSE a1

\* lines 257-305: the loop body for one monitor that is not skipped
snapBody(acc, mode, thresh, mon, other, x, y) ==
    LET monEff == getEffectiveDimensions(mon)
        otherEff == getEffectiveDimensions(other)
        a1 == IF mode = SnapEdges \/ mode = SnapBoth
              THEN snapEdgesY(snapEdgesX(acc, x, monEff[1], other, otherEff[1], thresh),
                              y, monEff[2], other, otherEff[2], thresh)
              ELSE acc
    IN  IF mode = SnapCenters \/ mode = SnapBoth
        THEN snapCentersY(snapCentersX(a1, x, monEff[1], other, otherEff[1], thresh),
                          y, monEff[2], other, otherEff[2], thresh)
        ELSE a1

\* a variant that walks the list from its end
RECURSIVE snapLoop_Backwards(_, _, _, _, _, _, _, _, _)
snapLoop_Backwards(i, acc, mons, sel, mode, thresh, mon, x, y) ==
    IF i > Len(mons) THEN acc
    ELSE LET k == Len(mons) + 1 - i
         IN  snapLoop_Backwards(i + 1,
                                IF ~(k - 1 = sel \/ ~mons[k].Active)
                                THEN snapBody(acc, mode, thresh, mon, mons[k], x, y)
                                ELSE acc,
                                mons, sel, mode, thresh, mon, x, y)

\* lines 253-306: the loop over the monitor list, from TLA+ index i on
RECURSIVE snapLoop(_, _, _, _, _, _, _, _, _)
snapLoop(i, acc, mons, sel, mode, thresh, mon, x, y) ==
    IF i > Len(mons) THEN acc
    ELSE snapLoop(i + 1,
                  IF snapConsiders(mons, sel, i)
                  THEN snapBody(acc, mode, thresh, mon, mons[i], x, y)
                  ELSE acc,
                  mons, sel, mode, thresh, mon, x, y)

\* a variant that leaves an axis alone once a monitor has snapped it
snapOrigin_OnlyIfUnsnapped(acc, x, y, thresh) ==
    LET ax == IF abs(x) < thresh /\ acc.newX = x
              THEN [acc EXCEPT !.newX = 0, !.guides = Append(@, guide("vertical", 0))]
              ELSE acc
    IN  IF abs(y) < thresh /\ acc.newY = y
        THEN [ax EXCEPT !.newY = 0, !.guides = Append(@, guide("horizontal", 0))]
        ELSE ax

\* lines 308-315: the origin snap
snapOrigin(acc, x, y, thresh) ==
    LET ax == IF abs(x) < thresh
              THEN [acc EXCEPT !.newX = 0, !.guides = Append(@, guide("vertical", 0))]
              ELSE acc
    IN  IF abs(y) < thresh
        THEN [ax EXCEPT !.newY = 0, !.guides = Append(@, guide("horizontal", 0))]
        ELSE ax

\* snapPosition on an explicit model state: [newX, newY, guides]
snapPositionIn(mons, sel, mode, thresh, mon, x, y) ==
    snapOrigin(snapLoop(1, [newX |-> x, newY |-> y, guides |-> << >>],
                        mons, sel, mode, thresh, mon, x, y),
               x, y, thresh)

snapPosition(mon, x, y) ==
    snapPositionIn(Monitors, Selected, Snap, SnapThresh, mon, x, y)

-----------------------------------------------------------------------------
(* World bounds updater *)

\* lines 131-143: the loop of updateWorld; acc = <<maxX, maxY>>
RECURSIVE worldLoop(_, _, _)
worldLoop(i, mons, acc) ==
    IF i > Len(mons) THEN acc
    ELSE LET mon == mons[i]
             scaledWidth == ScaledPx(mon.PxW, mon.Scale)
             scaledHeight == ScaledPx(mon.PxH, mon.Scale)
             maxX == IF mon.X + scaledWidth > acc[1] THEN mon.X + scaledWidth ELSE acc[1]
             maxY == IF mon.Y + scaledHeight > acc[2] THEN mon.Y + scaledHeight ELSE acc[2]
         IN  worldLoop(i + 1, mons, <<maxX, maxY>>)

\* the world literal of the source: the fields it does not name are zero
worldLit(width, height) ==
    [Width |-> width, Height |-> height, TermW |-> 0, TermH |-> 0,
     Scale |-> defaultWorldScale, OffsetX |-> 0, OffsetY |-> 0]

\* a variant that updates incrementally: the running maxima start from the
\* canvas of the previous call instead of zero
updateWorld_Incremental(mons) ==
    IF Len(mons) = 0
    THEN worldLit(defaultWorldWidth, defaultWorldHeight)
    ELSE LET m == worldLoop(1, mons, <<World.Width, World.Height>>)
         IN  worldLit(m[1] + worldPaddingPx, m[2] + worldPaddingPx)

\* updateWorld: the new value of m.World
updateWorld(mons) ==
    IF Len(mons) = 0
    THEN worldLit(defaultWorldWidth, defaultWorldHeight)
    ELSE LET m == worldLoop(1, mons, <<0, 0>>)
         IN  worldLit(m[1] + worldPaddingPx, m[2] + worldPaddingPx)

-----------------------------------------------------------------------------
(* Inputs.  A Monitor record holds the fields the layout engine, the       *)
(* advanced-settings dialog and applyMonitor read, as readMonitors fills   *)
(* them: the advanced fields and the drag state are zero after a load.  A  *)
(* name is the sequence of the code points of the Go string.               *)

Mon(w, h, scale, x, y, active, transform) ==
    [Name |-> << >>, PxW |-> w, PxH |-> h, Scale |-> scale, X |-> x, Y |-> y,
     Active |-> active, Transform |-> transform,
     IsMirrored |-> FALSE, MirrorSource |-> << >>, MirrorTargets |-> << >>,
     BitDepth |-> 0, ColorMode |-> "", SDRBrightness |-> <<0, 1>>,
     SDRSaturation |-> <<0, 1>>, VRR |-> 0,
     Dragging |-> FALSE, DragOffX |-> 0, DragOffY |-> 0]

\* "eDP-1", "HDMI-A-1", "DP-1", "DP-2", "DP-3": the names of connectors
ConnectorNames ==
    << <<101, 68, 80, 45, 49>>, <<72, 68, 77, 73, 45, 65, 45, 49>>,
       <<68, 80, 45, 49>>, <<68, 80, 45, 50>>, <<68, 80, 45, 51>> >>

\* "DP-9": never the name of a monitor of a list
AbsentName == <<68, 80, 45, 57>>

\* the list with its monitors named after the connectors, in order
Named(mons) == [i \in DOMAIN mons |-> [mons[i] EXCEPT !.Name = ConnectorNames[i]]]

Transforms == 0 .. 7

\* 0.5, 0.75, 1, 1.25, 1.5, 2, 2.5, 3 (among commonScales, models.go:1670)
Scales == { <<1, 2>>, <<3, 4>>, <<1, 1>>, <<5, 4>>, <<3, 2>>, <<2, 1>>, <<5, 2>>, <<3, 1>> }

\* ret before the call: each behaviour draws its inputs and makes one call
NoCall == [op |-> "none"]

NoSize == << >>
NoPicker == [selected |-> 0]
NoMirrorPicker == [availableMonitors |-> << >>, selected |-> 0]
NoModePicker == [modes |-> << >>, selected |-> 0]
NoProfileInput ==
    [input |-> << >>, cursor |-> 0, confirmOverride |-> FALSE,
     existingName |-> << >>]
NoSettings == [monitor |-> -1, focusedField |-> 0, width |-> 0, height |-> 0]
NoRollback == [saved |-> FALSE]
NoEvents ==
    [wheel |-> 0, move |-> 0, resize |-> 0, apply |-> 0, revert |-> 0, commands |-> 0,
     held |-> {}, toggle |-> 0, shown |-> << >>, opened |-> 0]

\* the zero values initialModel leaves in the overlay fields, GridPx as it
\* sets it, and no rollback saved
IdleOverlays ==
    /\ GridPx = 32
    /\ ShowHelp = FALSE /\ ShowProfileInput = FALSE /\ ShowScalePicker = FALSE
    /\ ShowModePicker = FALSE /\ ShowMirrorPicker = FALSE
    /\ ShowAdvancedSettings = FALSE
    /\ ProfileInput = NoProfileInput
    /\ ScalePicker = NoPicker
    /\ ModePicker = NoModePicker
    /\ MirrorPicker = NoMirrorPicker
    /\ AdvancedSettings = NoSettings
    /\ previousMonitors = NoRollback

\* for the pure functions: no overlay, no command running, an 80 x 24
\* terminal not yet reported
IdleUI ==
    /\ IdleOverlays
    /\ pending = {}
    /\ tty = <<80, 24>>
    /\ notified = NoSize
    /\ hypr = << >>
    /\ count = NoEvents

\* the session state of initialModel, the monitor list aside
FreshSession ==
    /\ Selected = 0
    /\ Snap = SnapOff
    /\ SnapThresh = 10
    /\ World = updateWorld(<< >>)
    /\ Guides = << >>
    /\ ret = NoCall
    /\ IdleUI

-----------------------------------------------------------------------------
(* getEffectiveDimensions as a pure function: SpecDims *)

MaxPx == 5

DimPx == (1 .. MaxPx) \cup {1080, 1920}

InitDims ==
    /\ Monitors \in { << Mon(w, h, s, 0, 0, TRUE, t) >> :
                         w \in DimPx, h \in DimPx, s \in Scales, t \in Transforms }
    /\ FreshSession

CallGetEffectiveDimensions ==
    /\ ret = NoCall
    /\ \E i \in 1 .. Len(Monitors) :
          LET eff == getEffectiveDimensions(Monitors[i])
          IN  ret' = [op |-> "getEffectiveDimensions", mon |-> Monitors[i],
                      w |-> eff[1], h |-> eff[2]]
    /\ UNCHANGED <<Monitors, Selected, Snap, SnapThresh, World, Guides, uiVars>>

NextDims == CallGetEffectiveDimensions

SpecDims == InitDims /\ [][NextDims]_vars

\* q = floor(px / scale), stated by its defining inequalities
IsFloorOfQuotient(q, px, scale) ==
    /\ q * scale[1] <= px * scale[2]
    /\ px * scale[2] < (q + 1) * scale[1]

-----------------------------------------------------------------------------
(* hitTest as a pure function: SpecHit.  The inputs are small worlds in    *)
(* which one terminal cell is 4 x 5 world units, with up to MaxHitMonitors *)
(* monitors that may overlap, and the fixture of TestHitTestWithRotation.  *)

MaxHitMonitors == 2

HitWorlds ==
    { [Width |-> 40, Height |-> 30, TermW |-> 13, TermH |-> 16,
       Scale |-> defaultWorldScale, OffsetX |-> ox, OffsetY |-> 0] : ox \in {0, 3} }

HitMonitors ==
    { Mon(8, 10, s, x, y, TRUE, t) :
        s \in { <<1, 1>>, <<2, 1>> }, x \in {-4, 0, 6}, y \in {0, 5}, t \in {0, 1} }

MonitorLists(set, n) == UNION { [1 .. k -> set] : k \in 0 .. n }

FixtureHitWorld ==
    [Width |-> 4000, Height |-> 2500, TermW |-> 80, TermH |-> 24,
     Scale |-> 0, OffsetX |-> 0, OffsetY |-> 0]

FixtureHitMonitors ==
    << Mon(1920, 1080, <<1, 1>>, 0, 0, FALSE, 0),
       Mon(1920, 1080, <<1, 1>>, 2000, 0, FALSE, 1) >>

InitHit ==
    /\ \/ /\ World \in HitWorlds
          /\ Monitors \in MonitorLists(HitMonitors, MaxHitMonitors)
       \/ /\ World = FixtureHitWorld
          /\ Monitors = FixtureHitMonitors
    /\ Selected = 0
    /\ Snap = SnapOff
    /\ SnapThresh = 10
    /\ Guides = << >>
    /\ ret = NoCall
    /\ IdleUI

\* the cells of the desktop area, and the two rows above it that the
\* mouse handler's msg.Y-2 makes negative
CallHitTest ==
    /\ ret = NoCall
    /\ \E col \in 0 .. (World.TermW - desktopBorderMargin),
          row \in -2 .. (World.TermH - desktopFooterHeight) :
          ret' = [op |-> "hitTest", col |-> col, row |-> row,
                  result |-> hitTest(col, row)]
    /\ UNCHANGED <<Monitors, Selected, Snap, SnapThresh, World, Guides, uiVars>>

NextHit == CallHitTest

SpecHit == InitHit /\ [][NextHit]_vars

\* the monitors (TLA+ indexes) whose half-open effective box holds world point w
BoxesHolding(w) ==
    { i \in 1 .. Len(Monitors) :
        LET eff == getEffectiveDimensions(Monitors[i])
        IN  /\ Monitors[i].X <= w[1] /\ w[1] < Monitors[i].X + eff[1]
            /\ Monitors[i].Y <= w[2] /\ w[2] < Monitors[i].Y + eff[2] }

\* C2: hitTest(col, row) returns the lowest list index whose effective box
\* (left/top inclusive, right/bottom exclusive) holds termToWorld(col, row),
\* and -1 exactly when no box holds it.
C2_HitTest ==
    ret.op = "hitTest" =>
        LET hits == BoxesHolding(termToWorld(ret.col, ret.row))
        IN  /\ (ret.result = -1) <=> (hits = {})
            /\ hits # {} =>
                  /\ ret.result + 1 \in hits
                  /\ \A i \in hits : ret.result + 1 <= i

\* two overlapping monitors hold the point, the first only because it is rotated
C2_Witness ==
    /\ ret.op = "hitTest"
    /\ ret.result = 0
    /\ LET w == termToWorld(ret.col, ret.row)
       IN  /\ BoxesHolding(w) = {1, 2}
           /\ Monitors[1].Transform = 1
           /\ w[1] >= Monitors[1].X + ScaledPx(Monitors[1].PxW, Monitors[1].Scale)
               \/ w[2] >= Monitors[1].Y + ScaledPx(Monitors[1].PxH, Monitors[1].Scale)

-----------------------------------------------------------------------------
(* snapPosition as a pure function: SpecSnap.  The moving monitor is the   *)
(* selected one, as at every call site (dragMove, the arrow keys, the      *)
(* tests).  Monitors are a few units wide and the threshold is SmallThresh *)
(* so that several rules and several monitors are within reach of one      *)
(* proposal; the two test fixtures are inputs as well.  The moving monitor  *)
(* is first, second or last in the list.                                   *)

MaxSnapOthers == 2
SmallThresh == 3
MaxCoord == 12

SnapModes == {SnapEdges, SnapCenters, SnapBoth}

\* the moving monitor: 4 x 2, upright or rotated, active or not
SnapMoving ==
    { Mon(4, 2, <<1, 1>>, 0, 0, TRUE, 0), Mon(4, 2, <<1, 1>>, 0, 0, TRUE, 1),
      Mon(4, 2, <<1, 1>>, 0, 0, FALSE, 0) }

\* the other monitors: 8 x 2, 2 x 8 (rotated) and 2 x 2 (scaled), one of them
\* reaching the origin on X, the rest within twice the threshold of each other
SnapActiveOthers ==
    { Mon(8, 2, <<1, 1>>, -6, 0, TRUE, 0),
      Mon(8, 2, <<1, 1>>, 5, 8, TRUE, 1),
      Mon(8, 2, <<1, 1>>, 8, 5, TRUE, 1),
      Mon(8, 2, <<1, 1>>, 8, 5, TRUE, 0),
      Mon(4, 4, <<2, 1>>, 5, 8, TRUE, 2) }

SnapInactiveOthers == { Mon(8, 2, <<1, 1>>, 5, 8, FALSE, 0) }

SnapOthers == SnapActiveOthers \cup SnapInactiveOthers

\* list l with monitor m inserted so that it gets Go index sel
InsertAt(l, sel, m) == SubSeq(l, 1, sel) \o << m >> \o SubSeq(l, sel + 1, Len(l))

FixtureRotation ==
    << Mon(1920, 1080, <<1, 1>>, 0, 0, TRUE, 0),
       Mon(1920, 1080, <<1, 1>>, 2000, 100, TRUE, 1) >>

FixtureCenter ==
    << Mon(1920, 1080, <<1, 1>>, 0, 0, TRUE, 0),
       Mon(1920, 1080, <<1, 1>>, 2000, 0, TRUE, 1) >>

FixtureThresh == 50

FixtureProposals ==
    { <<3090, 200>>, <<70, 200>>, <<500, 500>>, <<1590, 100>>, <<100, 430>> }

SmallCoords == (0 - 4) .. MaxCoord

\* every x with two values of y, and every y with two values of x
SmallProposals ==
    { <<x, y>> : x \in SmallCoords, y \in {1, 6} }
    \cup { <<x, y>> : x \in {1, 6}, y \in SmallCoords }

\* proposals at the ends of int32, made to a list of one monitor (the loop
\* of snapPosition skips the moving monitor)
ExtremeProposals ==
    { <<MinInt32, 1>>, <<MinInt32 + 1, 1>>, <<MaxInt32, 6>>, <<1, MinInt32>>,
      <<6, MaxInt32>> }

InitSnap ==
    /\ \/ /\ SnapThresh = SmallThresh
          /\ Snap \in SnapModes
          /\ \E l \in MonitorLists(SnapOthers, MaxSnapOthers) :
                \E sel \in {0, 1, Len(l)} \cap (0 .. Len(l)), m \in SnapMoving :
                   /\ Monitors = InsertAt(l, sel, m)
                   /\ Selected = sel
       \/ /\ SnapThresh = FixtureThresh
          /\ \/ Snap = SnapEdges /\ Monitors = FixtureRotation
             \/ Snap = SnapCenters /\ Monitors = FixtureCenter
          /\ Selected = 0
    /\ World = updateWorld(Monitors)
    /\ Guides = << >>
    /\ ret = NoCall
    /\ IdleUI

CallSnapPosition ==
    /\ ret = NoCall
    /\ \E p \in IF SnapThresh = FixtureThresh THEN FixtureProposals
               ELSE IF Len(Monitors) = 1 THEN SmallProposals \cup ExtremeProposals
               ELSE SmallProposals :
          LET r == snapPosition(Monitors[Selected + 1], p[1], p[2])
          IN  ret' = [op |-> "snapPosition", x |-> p[1], y |-> p[2],
                      newX |-> r.newX, newY |-> r.newY, guides |-> r.guides]
    /\ UNCHANGED <<Monitors, Selected, Snap, SnapThresh, World, Guides, uiVars>>

NextSnap == CallSnapPosition

SpecSnap == InitSnap /\ [][NextSnap]_vars

-----------------------------------------------------------------------------
(* The vocabulary of the snap claims, per axis a (1: X, 2: Y), over the    *)
(* inputs of the call recorded in ret.                                     *)

Moving == Monitors[Selected + 1]

\* the other active monitors (TLA+ indexes)
OtherActive == { i \in 1 .. Len(Monitors) : i - 1 # Selected /\ Monitors[i].Active }

Pos(mon, a) == IF a = 1 THEN mon.X ELSE mon.Y
Dim(mon, a) == getEffectiveDimensions(mon)[a]
Proposed(a) == IF a = 1 THEN ret.x ELSE ret.y
Resolved(a) == IF a = 1 THEN ret.newX ELSE ret.newY
GuideType(a) == IF a = 1 THEN "vertical" ELSE "horizontal"
Axes == {1, 2}
EdgeRules == {1, 2, 3}

\* rule 1: other's trailing edge; rule 2: other's leading edge less the moving
\* monitor's size; rule 3: other's leading edge
EdgeTarget(r, i, a) ==
    CASE r = 1 -> Pos(Monitors[i], a) + Dim(Monitors[i], a)
      [] r = 2 -> Pos(Monitors[i], a) - Dim(Moving, a)
      [] r = 3 -> Pos(Monitors[i], a)

EdgeMatch(r, i, a) == abs(Proposed(a) - EdgeTarget(r, i, a)) < SnapThresh

Center(mon, p, a) == p + (Dim(mon, a) \div 2)
OtherCenter(i, a) == Center(Monitors[i], Pos(Monitors[i], a), a)
CenterMatch(i, a) == abs(Center(Moving, Proposed(a), a) - OtherCenter(i, a)) < SnapThresh
CenterTarget(i, a) == OtherCenter(i, a) - (Dim(Moving, a) \div 2)

OriginFires(a) == abs(Proposed(a)) < SnapThresh

EdgesOn == Snap = SnapEdges \/ Snap = SnapBoth
CentersOn == Snap = SnapCenters \/ Snap = SnapBoth

MatchedEdgeRules(i, a) == { r \in EdgeRules : EdgeMatch(r, i, a) }

\* monitor i matches some rule the mode enables on axis a
MatchesAny(i, a) ==
    \/ EdgesOn /\ MatchedEdgeRules(i, a) # {}
    \/ CentersOn /\ CenterMatch(i, a)

SetMin(S) == CHOOSE r \in S : \A q \in S : r <= q
SetMax(S) == CHOOSE r \in S : \A q \in S : q <= r

HasGuide(type, value) ==
    \E k \in 1 .. Len(ret.guides) : ret.guides[k] = [Type |-> type, Value |-> value]

HasGuideOfType(type) ==
    \E k \in 1 .. Len(ret.guides) : ret.guides[k].Type = type

\* C3: in mode edges with one other active monitor, when exactly one of the
\* three edge rules is within threshold on an axis and the proposal is not
\* within threshold of the origin on that axis, the axis resolves to that
\* rule's target, computed with effective dimensions, and a guide is emitted.
C3_SingleEdgeRule ==
    (ret.op = "snapPosition" /\ Snap = SnapEdges /\ Cardinality(OtherActive) = 1) =>
        \A a \in Axes, i \in OtherActive, r \in EdgeRules :
            (MatchedEdgeRules(i, a) = {r} /\ ~OriginFires(a)) =>
                /\ Resolved(a) = EdgeTarget(r, i, a)
                /\ Len(ret.guides) >= 1
                /\ HasGuideOfType(GuideType(a))

\* the second case of TestSnapPositionWithRotation: the moving monitor's right
\* edge snaps to the left edge of the rotated monitor
C3_Witness ==
    /\ ret.op = "snapPosition" /\ Snap = SnapEdges /\ SnapThresh = FixtureThresh
    /\ ret.x = 70 /\ ret.newX = 80
    /\ MatchedEdgeRules(2, 1) = {2}
    /\ Len(ret.guides) = 1

\* C4 as the specification states it, for the proposals no later stage touches
\* (no center match in mode both, no origin snap): with one other active
\* monitor and more than one edge rule within threshold on an axis, the axis
\* resolves to the target of the LAST matching rule.
C4_LastRuleWins ==
    (ret.op = "snapPosition" /\ EdgesOn /\ Cardinality(OtherActive) = 1) =>
        \A a \in Axes, i \in OtherActive :
            ( /\ Cardinality(MatchedEdgeRules(i, a)) > 1
              /\ ~OriginFires(a)
              /\ ~(CentersOn /\ CenterMatch(i, a)) ) =>
                Resolved(a) = EdgeTarget(SetMax(MatchedEdgeRules(i, a)), i, a)

\* C4 (amended): in mode edges or both, with one other active monitor and more
\* than one edge rule within threshold on an axis, the edge stage keeps the
\* target of the FIRST matching rule (1 before 2 before 3); it is the resolved
\* coordinate unless the center rule (mode both) or the origin snap also fires.
C4_FirstRuleWins ==
    (ret.op = "snapPosition" /\ EdgesOn /\ Cardinality(OtherActive) = 1) =>
        \A a \in Axes, i \in OtherActive :
            ( /\ Cardinality(MatchedEdgeRules(i, a)) > 1
              /\ ~OriginFires(a)
              /\ ~(CentersOn /\ CenterMatch(i, a)) ) =>
                /\ Resolved(a) = EdgeTarget(SetMin(MatchedEdgeRules(i, a)), i, a)
                /\ HasGuideOfType(GuideType(a))

\* rules 1 and 3 both match a narrow monitor on X; rule 1 is kept
C4_Witness ==
    /\ ret.op = "snapPosition" /\ Snap = SnapEdges /\ Cardinality(OtherActive) = 1
    /\ \E i \in OtherActive :
          /\ MatchedEdgeRules(i, 1) = {1, 3}
          /\ ~OriginFires(1)
          /\ ret.newX = EdgeTarget(1, i, 1)
          /\ ret.newX # EdgeTarget(3, i, 1)

\* monitors i and j match the same enabled rule on axis a
SameRuleMatch(i, j, a) ==
    \/ EdgesOn /\ MatchedEdgeRules(i, a) \cap MatchedEdgeRules(j, a) # {}
    \/ CentersOn /\ CenterMatch(i, a) /\ CenterMatch(j, a)

\* the target monitor j gives on axis a when it matches
TargetGivenBy(j, a) ==
    IF CentersOn /\ CenterMatch(j, a)
    THEN CenterTarget(j, a)
    ELSE EdgeTarget(SetMin(MatchedEdgeRules(j, a)), j, a)

\* C5: when two other active monitors both match the same snap rule on an axis
\* and the origin snap does not fire, the axis resolves to the target given by
\* the one with the larger list index (the larger of the matching monitors: no
\* monitor after it matches).
C5_LaterMonitorWins ==
    ret.op = "snapPosition" =>
        \A a \in Axes, i \in OtherActive, j \in OtherActive :
            ( /\ i < j
              /\ SameRuleMatch(i, j, a)
              /\ ~OriginFires(a)
              /\ \A k \in OtherActive : k > j => ~MatchesAny(k, a) ) =>
                Resolved(a) = TargetGivenBy(j, a)

\* two monitors match rule 3 on Y with different targets; the later one's is kept
C5_Witness ==
    /\ ret.op = "snapPosition" /\ Snap = SnapEdges
    /\ \E i \in OtherActive, j \in OtherActive :
          /\ i < j
          /\ 3 \in MatchedEdgeRules(i, 2) /\ MatchedEdgeRules(j, 2) = {3}
          /\ ~OriginFires(2)
          /\ TargetGivenBy(i, 2) # TargetGivenBy(j, 2)
          /\ ret.newY = EdgeTarget(3, j, 2)

\* C6: in every mode other than off, a proposal within threshold of the origin
\* on an axis resolves that axis to 0, whatever edge or center matched.
C6_OriginWins ==
    (ret.op = "snapPosition" /\ Snap # SnapOff) =>
        \A a \in Axes : OriginFires(a) => Resolved(a) = 0

\* an edge rule with a non-zero target matched on X, and X still resolved to 0
C6_Witness ==
    /\ ret.op = "snapPosition" /\ Snap = SnapBoth
    /\ OriginFires(1) /\ ret.x # 0 /\ ret.newX = 0
    /\ \E i \in OtherActive :
          /\ MatchedEdgeRules(i, 1) = {1} /\ EdgeTarget(1, i, 1) # 0
          /\ HasGuide("vertical", EdgeTarget(1, i, 1))

\* C7: if no reference the mode enables (edge, center) of any other active
\* monitor and no origin is within threshold on either axis, snapPosition
\* returns the proposal unchanged and no guide.
C7_NoReferenceNoSnap ==
    ret.op = "snapPosition" =>
        ( (\A a \in Axes : ~OriginFires(a) /\ \A i \in OtherActive : ~MatchesAny(i, a)) =>
            /\ ret.newX = ret.x
            /\ ret.newY = ret.y
            /\ ret.guides = << >> )

\* two other active monitors, none within reach, one at exactly the threshold
C7_Witness ==
    /\ ret.op = "snapPosition" /\ Snap = SnapBoth
    /\ Cardinality(OtherActive) = 2
    /\ \A a \in Axes : ~OriginFires(a) /\ \A i \in OtherActive : ~MatchesAny(i, a)
    /\ \E i \in OtherActive, r \in EdgeRules :
          abs(Proposed(2) - EdgeTarget(r, i, 2)) = SnapThresh
    /\ ret.guides = << >>

CenterMatchers(a) == { i \in OtherActive : CenterMatch(i, a) }

\* C8 as stated: in mode centers, whenever the moving monitor's center is
\* within threshold of another active monitor's center on an axis, the axis
\* resolves so that the two centers coincide and a guide is emitted at the
\* other's center; an axis with no center within threshold is unmodified.
C8_CenterAlignAlways ==
    (ret.op = "snapPosition" /\ Snap = SnapCenters) =>
        \A a \in Axes :
            /\ \A i \in CenterMatchers(a) :
                  /\ Center(Moving, Resolved(a), a) = OtherCenter(i, a)
                  /\ HasGuide(GuideType(a), OtherCenter(i, a))
            /\ CenterMatchers(a) = {} => Resolved(a) = Proposed(a)

\* C8 (amended): in mode centers, on every axis on which the proposal is not
\* within threshold of the origin: if the moving monitor's center is within
\* threshold of the center of some other active monitors, the axis resolves so
\* that its center equals the center of the last of them in list order, and a
\* guide is emitted at the center of each of them; otherwise the axis is
\* returned unmodified.  (Within threshold of the origin the axis resolves to 0.)
C8_CenterAlign ==
    (ret.op = "snapPosition" /\ Snap = SnapCenters) =>
        \A a \in Axes :
            /\ \A i \in CenterMatchers(a) : HasGuide(GuideType(a), OtherCenter(i, a))
            /\ ~OriginFires(a) =>
                  IF CenterMatchers(a) = {}
                  THEN Resolved(a) = Proposed(a)
                  ELSE Center(Moving, Resolved(a), a)
                         = OtherCenter(SetMax(CenterMatchers(a)), a)

\* the second case of TestSnapPositionWithCenterAlignment: Y aligns with the
\* rotated monitor's center (960), X is out of reach and unmodified
C8_Witness ==
    /\ ret.op = "snapPosition" /\ Snap = SnapCenters /\ SnapThresh = FixtureThresh
    /\ ret.x = 100 /\ ret.y = 430
    /\ CenterMatchers(2) = {2} /\ CenterMatchers(1) = {}
    /\ ret.newY = 420 /\ ret.newX = 100
    /\ ret.guides = << [Type |-> "horizontal", Value |-> 960] >>

-----------------------------------------------------------------------------
(* C9: the lists that differ from Monitors only where the claim allows.    *)

\* what an inactive monitor may be replaced by: other position, size, scale, transform
InactiveAlternatives ==
    { Mon(8, 2, <<1, 1>>, 5, 8, FALSE, 0), Mon(4, 4, <<2, 1>>, 0, 0, FALSE, 1),
      Mon(2, 8, <<1, 2>>, 6, 1, FALSE, 3) }

\* what the stored position of the selected monitor may be replaced by
StoredAlternatives == { <<0, 0>>, <<5, 8>>, <<-3, 6>> }

Restored(mon) ==
    { [mon EXCEPT !.X = p[1], !.Y = p[2]] : p \in StoredAlternatives }

\* what slot i may hold.  asStated: the claim's wording, in which any inactive
\* monitor may differ, the selected one too; otherwise only inactive monitors
\* other than the selected one may differ.
Slot(i, asStated) ==
    IF i - 1 = Selected
    THEN IF asStated /\ ~Monitors[i].Active
         THEN Restored(Monitors[i]) \cup UNION { Restored(m) : m \in InactiveAlternatives }
         ELSE Restored(Monitors[i])
    ELSE IF Monitors[i].Active THEN { Monitors[i] }
         ELSE { Monitors[i] } \cup InactiveAlternatives

RECURSIVE VariantsFrom(_, _)
VariantsFrom(i, asStated) ==
    IF i > Len(Monitors) THEN { << >> }
    ELSE { << h >> \o t : h \in Slot(i, asStated), t \in VariantsFrom(i + 1, asStated) }

ResultOn(mons) ==
    snapPositionIn(mons, Selected, Snap, SnapThresh, mons[Selected + 1], ret.x, ret.y)

RetResult == [newX |-> ret.newX, newY |-> ret.newY, guides |-> ret.guides]

\* C9 as stated: the result is the same on every list that differs only in
\* position, size, scale or transform of monitors with Active = FALSE or in
\* the stored X/Y of the selected monitor.
C9_IndependentAsStated ==
    ret.op = "snapPosition" =>
        \A v \in VariantsFrom(1, TRUE) : ResultOn(v) = RetResult

\* C9 (amended): the result is the same on every list that differs only in
\* position, size, scale or transform of inactive monitors other than the
\* selected one, or in the stored X/Y of the selected monitor.
C9_Independent ==
    ret.op = "snapPosition" =>
        \A v \in VariantsFrom(1, FALSE) : ResultOn(v) = RetResult

\* an inactive monitor sits where rule 3 would match on X, and X is unmodified
C9_Witness ==
    /\ ret.op = "snapPosition" /\ Snap = SnapEdges
    /\ \E i \in 1 .. Len(Monitors) :
          /\ i - 1 # Selected /\ ~Monitors[i].Active
          /\ EdgeMatch(3, i, 1)
    /\ ~OriginFires(1)
    /\ ret.newX = ret.x
    /\ Cardinality(OtherActive) = 1

\* a and b are less than t apart, t positive (no difference is formed that
\* leaves int32)
Near(a, b, t) ==
    IF (a < 0) = (b < 0) THEN abs(a - b) < t
    ELSE LET neg == IF a < 0 THEN a ELSE b
             pos == IF a < 0 THEN b ELSE a
         IN  neg > 0 - t /\ pos < t + neg

\* C36: on every axis that snapPosition changed, the resolved coordinate is
\* less than SnapThresh away from the proposed one
C36_SnapMovesLessThanThresh ==
    ret.op = "snapPosition" =>
        \A a \in Axes :
            Resolved(a) # Proposed(a) => Near(Resolved(a), Proposed(a), SnapThresh)

-----------------------------------------------------------------------------
(* updateWorld: SpecWorld.  The session starts as initialModel leaves it   *)
(* before its own call of updateWorld (terminal 80 x 24, main.go:74-75),   *)
(* with a monitor list as a load delivers it.  Positions are signed; every  *)
(* monitor reaches the non-negative quadrant, so the zero the running      *)
(* maxima start from (line 131) is never the maximum.                      *)

MaxWorldMonitors == 2
MaxUpdateCalls == 2

WorldMonitors ==
    { Mon(4, 2, s, x, y, TRUE, t) :
        s \in { <<1, 1>>, <<2, 1>> }, x \in {-1, 0, 3}, y \in {-1, 0, 3}, t \in {0, 1, 7} }
    \cup { Mon(1920, 1080, <<1, 1>>, 0, 0, TRUE, t) : t \in {0, 1} }

InitWorld ==
    /\ Monitors \in MonitorLists(WorldMonitors, MaxWorldMonitors)
    /\ World = [Width |-> 0, Height |-> 0, TermW |-> 80, TermH |-> 24,
                Scale |-> 0, OffsetX |-> 0, OffsetY |-> 0]
    /\ Selected = 0
    /\ Snap = SnapOff
    /\ SnapThresh = 10
    /\ Guides = << >>
    /\ ret = NoCall
    /\ IdleUI

\* the calls made so far in this behaviour
UpdateCalls == IF ret.op = "updateWorld" THEN ret.calls ELSE 0

\* one call of updateWorld; ret keeps the World the call started from
CallUpdateWorld ==
    /\ UpdateCalls < MaxUpdateCalls
    /\ World' = updateWorld(Monitors)
    /\ ret' = [op |-> "updateWorld", calls |-> UpdateCalls + 1, before |-> World]
    /\ UNCHANGED <<Monitors, Selected, Snap, SnapThresh, Guides, uiVars>>

NextWorld == CallUpdateWorld

SpecWorld == InitWorld /\ [][NextWorld]_vars

\* the far edge of monitor i on axis a, with rotation-aware dimensions
FarEdge(i, a) == Pos(Monitors[i], a) + Dim(Monitors[i], a)

FarthestEdge(a) == SetMax({ FarEdge(i, a) : i \in 1 .. Len(Monitors) })

\* C10: updateWorld on an empty list sets the canvas to 3840 x 2160; on a
\* non-empty list it sets World.Width = max_i(X_i + effW_i) + 500 and
\* World.Height = max_i(Y_i + effH_i) + 500, effW / effH being the
\* rotation-aware dimensions of getEffectiveDimensions.
C10_WorldBounds ==
    ret.op = "updateWorld" =>
        IF Len(Monitors) = 0
        THEN World.Width = 3840 /\ World.Height = 2160
        ELSE /\ World.Width = FarthestEdge(1) + 500
             /\ World.Height = FarthestEdge(2) + 500

-----------------------------------------------------------------------------
(* worldToTerm and termToWorld as pure functions: SpecTransform.  The      *)
(* canvases are those updateWorld builds (the padding alone, or the        *)
(* padding past a 1920 x 1080 monitor), the pan offset is zero as          *)
(* everywhere in the program, and the terminal sizes are those a           *)
(* window-size notification or a reload can leave in World.TermW/TermH.    *)

MaxWorldCoord == 130
MaxTermCell == 20

TermSizes ==
    { <<80, 24>>, <<603, 24>>, <<4, 11>>, <<80, 10>>, <<3, 10>>, <<0, 0>> }

TransformWorlds ==
    { [worldLit(width, height) EXCEPT !.TermW = t[1], !.TermH = t[2]] :
        width \in {worldPaddingPx, 1920 + worldPaddingPx},
        height \in {worldPaddingPx, 1080 + worldPaddingPx},
        t \in TermSizes }

\* world coordinates on either side of the origin and at the far edge
WorldCoords(size) == ((0 - 70) .. MaxWorldCoord) \cup {size - 2, size - 1}

\* terminal cells: the two rows above the desktop that the mouse handler's
\* msg.Y-2 makes negative, the first cells, and the last cell of the desktop
TermCells(desktop) == ((0 - 2) .. MaxTermCell) \cup {desktop - 1, desktop}

InitTransform ==
    /\ World \in TransformWorlds
    /\ Monitors = << >>
    /\ Selected = 0
    /\ Snap = SnapOff
    /\ SnapThresh = 10
    /\ Guides = << >>
    /\ ret = NoCall
    /\ IdleUI

CallWorldToTerm ==
    /\ ret = NoCall
    /\ \E x \in WorldCoords(World.Width), y \in WorldCoords(World.Height) :
          /\ x \in {0, 7, World.Width - 1} \/ y \in {0, 7, World.Height - 1}
          /\ LET t == worldToTerm(x, y)
             IN  ret' = [op |-> "worldToTerm", x |-> x, y |-> y,
                         desktopWidth |-> World.TermW - desktopBorderMargin,
                         desktopHeight |-> World.TermH - desktopFooterHeight,
                         termX |-> t[1], termY |-> t[2]]
    /\ UNCHANGED <<Monitors, Selected, Snap, SnapThresh, World, Guides, uiVars>>

CallTermToWorld ==
    /\ ret = NoCall
    /\ \E col \in TermCells(World.TermW - desktopBorderMargin),
          row \in TermCells(World.TermH - desktopFooterHeight) :
          /\ col \in {0, 1, 5} \/ row \in {0, 1, 5}
          /\ \E w \in termToWorldOutcomes(World, col, row) :
                ret' = [op |-> "termToWorld", col |-> col, row |-> row,
                        desktopWidth |-> World.TermW - desktopBorderMargin,
                        desktopHeight |-> World.TermH - desktopFooterHeight,
                        worldX |-> w[1], worldY |-> w[2]]
    /\ UNCHANGED <<Monitors, Selected, Snap, SnapThresh, World, Guides, uiVars>>

NextTransform == CallWorldToTerm \/ CallTermToWorld

SpecTransform == InitTransform /\ [][NextTransform]_vars

\* the world point is on the canvas and the usable terminal area is positive
OnCanvas ==
    /\ 0 <= ret.x /\ ret.x < World.Width
    /\ 0 <= ret.y /\ ret.y < World.Height
    /\ ret.desktopWidth > 0 /\ ret.desktopHeight > 0

\* float32 holds every integer below 2^24 exactly
Float32ExactBelow == 16777216

\* the usable terminal area is no larger than the canvas (a cell spans at
\* least one world unit) and the products of both maps are exact in float32
CellsSpanUnits ==
    /\ ret.desktopWidth <= World.Width /\ ret.desktopHeight <= World.Height
    /\ World.Width * ret.desktopWidth < Float32ExactBelow
    /\ World.Height * ret.desktopHeight < Float32ExactBelow

\* worldToTerm(termToWorld(worldToTerm(x, y))) for the call recorded in ret
RoundTrip ==
    LET back == termToWorldIn(World, ret.termX, ret.termY)
    IN  worldToTermIn(World, back[1], back[2])

\* C13 as stated: for every world point on the canvas and every terminal
\* size with positive usable dimensions,
\* worldToTerm(termToWorld(worldToTerm(x, y))) = worldToTerm(x, y).
C13_RoundTripIdempotent ==
    (ret.op = "worldToTerm" /\ OnCanvas) => RoundTrip = <<ret.termX, ret.termY>>

\* C13 as amended: for every world point on the canvas and every terminal
\* size whose usable dimensions are positive and no larger than the canvas
\* (canvas size times usable size below 2^24),
\* worldToTerm(termToWorld(worldToTerm(x, y))) is on each axis the cell of
\* worldToTerm(x, y) or the cell before it, never a later one.
C13_RoundTripWithinOneCell ==
    (ret.op = "worldToTerm" /\ OnCanvas /\ CellsSpanUnits)
    => /\ RoundTrip[1] \in {ret.termX - 1, ret.termX}
       /\ RoundTrip[2] \in {ret.termY - 1, ret.termY}

\* a point whose cell the round trip keeps on one axis and loses on the other
C13_Witness ==
    /\ ret.op = "worldToTerm" /\ OnCanvas /\ CellsSpanUnits
    /\ ret.termX > 0
    /\ RoundTrip[1] = ret.termX - 1
    /\ RoundTrip[2] = ret.termY

\* q = floor(a / b) for b > 0
IsFloor(q, a, b) == q * b <= a /\ a < (q + 1) * b

\* C14: for every world coordinate, negative ones included, worldToTerm
\* returns termCol = floor((worldX - OffsetX) * (TermW - 3) / World.Width) and
\* termRow = floor((worldY - OffsetY) * (TermH - 10) / World.Height), rounding
\* toward minus infinity rather than toward zero.
C14_FloorTowardMinusInfinity ==
    (ret.op = "worldToTerm" /\ ret.desktopWidth > 0 /\ ret.desktopHeight > 0)
    => /\ IsFloor(ret.termX, (ret.x - World.OffsetX) * (World.TermW - 3), World.Width)
       /\ IsFloor(ret.termY, (ret.y - World.OffsetY) * (World.TermH - 10), World.Height)

\* C15: for every terminal size, TermW <= 3 and TermH <= 10 included,
\* worldToTerm and termToWorld use usable dimensions that are strictly
\* positive (clamped to a positive minimum), so termToWorld never divides by
\* a zero or negative usable dimension.
C15_UsableDimensionsPositive ==
    ret.op \in {"worldToTerm", "termToWorld"}
    => ret.desktopWidth > 0 /\ ret.desktopHeight > 0

-----------------------------------------------------------------------------
(* Sending a configuration to the compositor.  applyMonitor builds one     *)
(* shell command, hyprctl keyword monitor "RULE", and runs it with sh -c.  *)
(* A rule is modelled by what its text holds: the names as they stand, the *)
(* integers as they stand, and the float32 fields as the hundredths that   *)
(* %.2f prints.  Hz is not part of the model.                              *)

\* a variant that accepts the empty name
isValidMonitorName_EmptyAllowed(name) ==
    \A k \in 1 .. Len(name) :
        LET r == name[k]
        IN  \/ (r >= 97 /\ r <= 122) \/ (r >= 65 /\ r <= 90)
            \/ (r >= 48 /\ r <= 57) \/ r = 45 \/ r = 95 \/ r = 46

\* isValidMonitorName: not empty, and every rune a letter, a digit, '-',
\* '_' or '.'
isValidMonitorName(name) ==
    /\ name # << >>
    /\ \A k \in 1 .. Len(name) :
          LET r == name[k]
              isLower == r >= 97 /\ r <= 122
              isUpper == r >= 65 /\ r <= 90
              isDigit == r >= 48 /\ r <= 57
              isSpecial == r = 45 \/ r = 95 \/ r = 46
          IN  isLower \/ isUpper \/ isDigit \/ isSpecial

\* isValidColorMode: the keys of validModes
isValidColorMode(mode) ==
    mode \in {"auto", "srgb", "wide", "edid", "hdr", "hdredid", ""}

\* what %.2f prints for the float32 n/d, in hundredths: the exact value
\* rounded to two decimals, a tie going to the even digit
TwoDecimals(f) ==
    LET q == (f[1] * 100) \div f[2]
        r == (f[1] * 100) % f[2]
    IN  IF 2 * r > f[2] \/ (2 * r = f[2] /\ q % 2 = 1) THEN q + 1 ELSE q

\* the float32 that readMonitors makes of the scale the compositor
\* reports, h hundredths: the float32 nearest to h/100, a tie going to the
\* even mantissa.  FloatDenominator is the power of two d for which
\* h * d / 100 has the 24 digits of a mantissa.
RECURSIVE FloatDenominator(_, _)
FloatDenominator(h, d) ==
    IF (h * d) \div 100 < 8388608 THEN FloatDenominator(h, 2 * d) ELSE d

Float32OfHundredths(h) ==
    IF h = 0 THEN <<0, 1>>
    ELSE LET d == FloatDenominator(h, 1)
             q == (h * d) \div 100
             r == (h * d) % 100
         IN  NormF32(IF 2 * r > 100 \/ (2 * r = 100 /\ q % 2 = 1) THEN q + 1 ELSE q, d)

NoCommand == [run |-> FALSE]

\* the rule of an active monitor that mirrors another one
mirrorRule(m) ==
    [run |-> TRUE, name |-> m.Name, disable |-> FALSE,
     mode |-> <<m.PxW, m.PxH>>, position |-> <<m.X, m.Y>>,
     scale |-> TwoDecimals(m.Scale), mirror |-> m.MirrorSource,
     bitdepth |-> 0, cm |-> "", sdrbrightness |-> 0, sdrsaturation |-> 0,
     vrr |-> 0, transform |-> 0]

\* the rule of an active monitor that mirrors nothing: an advanced setting
\* is part of it only when it differs from the default
monitorRule(m) ==
    LET hdr == m.ColorMode = "hdr" \/ m.ColorMode = "hdredid"
    IN  [run |-> TRUE, name |-> m.Name, disable |-> FALSE,
         mode |-> <<m.PxW, m.PxH>>, position |-> <<m.X, m.Y>>,
         scale |-> TwoDecimals(m.Scale), mirror |-> << >>,
         bitdepth |-> IF m.BitDepth = 10 THEN 10 ELSE 0,
         cm |-> IF m.ColorMode # "" /\ m.ColorMode # "srgb" THEN m.ColorMode ELSE "",
         sdrbrightness |->
             IF hdr /\ m.SDRBrightness # <<0, 1>> /\ m.SDRBrightness # <<1, 1>>
             THEN TwoDecimals(m.SDRBrightness) ELSE 0,
         sdrsaturation |->
             IF hdr /\ m.SDRSaturation # <<0, 1>> /\ m.SDRSaturation # <<1, 1>>
             THEN TwoDecimals(m.SDRSaturation) ELSE 0,
         vrr |-> IF m.VRR > 0 THEN m.VRR ELSE 0,
         transform |-> IF m.Transform > 0 THEN m.Transform ELSE 0]

\* the rule NAME,disable
disableRule(m) ==
    [run |-> TRUE, name |-> m.Name, disable |-> TRUE,
     mode |-> <<0, 0>>, position |-> <<0, 0>>, scale |-> 0, mirror |-> << >>,
     bitdepth |-> 0, cm |-> "", sdrbrightness |-> 0, sdrsaturation |-> 0,
     vrr |-> 0, transform |-> 0]

\* applyMonitor: the error it returns ("" for nil) and the command it has
\* run; exec is the error of sh -c, "" when the command succeeds
applyMonitor(m, exec) ==
    IF ~isValidMonitorName(m.Name)
    THEN [err |-> "invalid monitor name", cmd |-> NoCommand]
    ELSE IF ~isValidColorMode(m.ColorMode)
    THEN [err |-> "invalid color mode", cmd |-> NoCommand]
    ELSE IF m.Active
    THEN IF m.IsMirrored /\ m.MirrorSource # << >>
         THEN IF ~isValidMonitorName(m.MirrorSource)
              THEN [err |-> "invalid mirror source name", cmd |-> NoCommand]
              ELSE [err |-> exec, cmd |-> mirrorRule(m)]
         ELSE [err |-> exec, cmd |-> monitorRule(m)]
    ELSE [err |-> exec, cmd |-> disableRule(m)]

-----------------------------------------------------------------------------
(* Mirror chains: wouldCreateCircularMirror *)

\* the loop that fills mirrorMap: a later entry of a name replaces an
\* earlier one
RECURSIVE mirrorMapLoop(_, _, _)
mirrorMapLoop(i, allMonitors, mirrorMap) ==
    IF i > Len(allMonitors) THEN mirrorMap
    ELSE LET mon == allMonitors[i]
         IN  mirrorMapLoop(i + 1, allMonitors,
                 IF mon.IsMirrored /\ mon.MirrorSource # << >>
                 THEN (mon.Name :> mon.MirrorSource) @@ mirrorMap
                 ELSE mirrorMap)

\* the for loop that follows the chain
RECURSIVE chainLoop(_, _, _, _)
chainLoop(current, visited, currentMonitor, mirrorMap) ==
    IF current \in visited THEN TRUE
    ELSE IF current = currentMonitor THEN TRUE
    ELSE IF current \notin DOMAIN mirrorMap THEN FALSE
    ELSE chainLoop(mirrorMap[current], visited \cup {current}, currentMonitor,
                   mirrorMap)

\* a variant that looks one step down the chain only
wouldCreateCircularMirror_DirectOnly(currentMonitor, sourceMonitor, allMonitors) ==
    LET mirrorMap == mirrorMapLoop(1, allMonitors, << >>)
    IN  \/ sourceMonitor = currentMonitor
        \/ /\ sourceMonitor \in DOMAIN mirrorMap
           /\ mirrorMap[sourceMonitor] = currentMonitor

wouldCreateCircularMirror(currentMonitor, sourceMonitor, allMonitors) ==
    chainLoop(sourceMonitor, {}, currentMonitor,
              mirrorMapLoop(1, allMonitors, << >>))

-----------------------------------------------------------------------------
(* The interactive session.  Update is a function of the receiver (the     *)
(* current model value, self) and a message; it returns the new model      *)
(* value and the commands it issues.  Messages are records with a type     *)
(* field; commands are the records held in pending until they complete.    *)

self ==
    [Monitors |-> Monitors, Selected |-> Selected, Snap |-> Snap,
     SnapThresh |-> SnapThresh, World |-> World, Guides |-> Guides,
     GridPx |-> GridPx, ShowHelp |-> ShowHelp,
     ShowProfileInput |-> ShowProfileInput, ShowScalePicker |-> ShowScalePicker,
     ShowModePicker |-> ShowModePicker, ShowMirrorPicker |-> ShowMirrorPicker,
     ShowAdvancedSettings |-> ShowAdvancedSettings,
     ProfileInput |-> ProfileInput, ScalePicker |-> ScalePicker,
     ModePicker |-> ModePicker, MirrorPicker |-> MirrorPicker,
     AdvancedSettings |-> AdvancedSettings]

\* a return statement of Update: the model, the commands, and the package
\* variable previousMonitors as the handler leaves it
Return(m, cmd) == [m |-> m, cmd |-> cmd, previousMonitors |-> previousMonitors]

\* the test m.Selected >= 0 && m.Selected < len(m.Monitors)
selectedValid == Selected >= 0 /\ Selected < Len(Monitors)

LoadCmd == [cmd |-> "load"]
WindowSizeCmd == [cmd |-> "windowSize"]

NoError == [cause |-> ""]

\* revertCmd(): the task has not yet called rollback; once it has, started
\* is TRUE and own is the list rollback hands to applyMonitors
RevertCmd ==
    [cmd |-> "revert", started |-> FALSE, snapshot |-> << >>, shared |-> FALSE,
     own |-> << >>, next |-> 1, sent |-> << >>, err |-> NoError]
ScaleCancelledCmd == [cmd |-> "scaleCancelled"]
ScaleSelectedCmd(scale) == [cmd |-> "scaleSelected", scale |-> scale]
MirrorCancelledCmd == [cmd |-> "mirrorCancelled"]
MirrorSelectedCmd(source) == [cmd |-> "mirrorSelected", source |-> source]

\* applyCmd(m.Monitors): the task holds the slice it was given.  shared is
\* TRUE while that slice and m.Monitors have the same backing array, own is
\* the content of the array once the session has replaced its list, next is
\* the index applyMonitors reads next, sent what the compositor was sent,
\* err the error applyMonitors has returned; snapshot remembers the list at
\* the instant the command was issued.
ApplyCmd(mons) ==
    [cmd |-> "apply", started |-> TRUE, snapshot |-> mons, shared |-> TRUE,
     own |-> << >>, next |-> 1, sent |-> << >>, err |-> NoError]

KeyMsg(key) == [type |-> "KeyMsg", key |-> key]
MouseMsg(action, button, x, y) ==
    [type |-> "MouseMsg", Action |-> action, Button |-> button, X |-> x, Y |-> y]
WindowSizeMsg(size) == [type |-> "WindowSizeMsg", Width |-> size[1], Height |-> size[2]]
initMsg(monitors, err) == [type |-> "initMsg", monitors |-> monitors, err |-> err]

\* lines 999-1065: the help overlay receives every message
updateHelp(msg) ==
    IF msg.type = "KeyMsg" /\ msg.key \in {"esc", "q", "?"}
    THEN Return([self EXCEPT !.ShowHelp = FALSE], {})
    ELSE IF /\ msg.type = "MouseMsg" /\ msg.Action = "press"
            /\ msg.Button \notin {"wheelUp", "wheelDown"}
    THEN Return([self EXCEPT !.ShowHelp = FALSE], {})
    ELSE Return(self, {})

\* the float32 values of the literals of commonScales
commonScales ==
    << <<1, 2>>, <<3, 4>>, <<7549747, 8388608>>, <<1, 1>>, <<9227469, 8388608>>,
       <<5, 4>>, <<11156849, 8388608>>, <<3, 2>>, <<13925089, 8388608>>,
       <<7, 4>>, <<2, 1>>, <<9, 4>>, <<5, 2>>, <<11, 4>>, <<3, 1>> >>

\* the Go index of the first entry of commonScales equal to scale, or dflt
RECURSIVE scaleIndex(_, _, _)
scaleIndex(i, scale, dflt) ==
    IF i > Len(commonScales) THEN dflt
    ELSE IF commonScales[i] = scale THEN i - 1
    ELSE scaleIndex(i + 1, scale, dflt)

\* of the picker's fields only selected is read by a handler
newScalePicker(currentScale) == [selected |-> scaleIndex(1, currentScale, 3)]

\* scalePickerModel.Update: <<picker, commands>>
scalePickerUpdate(p, msg) ==
    IF msg.type # "KeyMsg" THEN <<p, {}>>
    ELSE IF msg.key \in {"q", "ctrl+c", "esc"} THEN <<p, {ScaleCancelledCmd}>>
    ELSE IF msg.key \in {"up", "k"}
    THEN <<IF p.selected > 0 THEN [p EXCEPT !.selected = @ - 1] ELSE p, {}>>
    ELSE IF msg.key \in {"down", "j"}
    THEN <<IF p.selected < Len(commonScales) - 1
           THEN [p EXCEPT !.selected = @ + 1] ELSE p, {}>>
    ELSE IF msg.key \in {"home", "g"} THEN <<[p EXCEPT !.selected = 0], {}>>
    ELSE IF msg.key \in {"end", "G"}
    THEN <<[p EXCEPT !.selected = Len(commonScales) - 1], {}>>
    ELSE IF msg.key \in {"enter", " "}
    THEN <<p, {ScaleSelectedCmd(commonScales[p.selected + 1])}>>
    ELSE IF msg.key = "1"
    THEN <<[p EXCEPT !.selected = scaleIndex(1, <<1, 1>>, -1)],
           {ScaleSelectedCmd(<<1, 1>>)}>>
    ELSE IF msg.key = "2"
    THEN <<[p EXCEPT !.selected = scaleIndex(1, <<2, 1>>, -1)],
           {ScaleSelectedCmd(<<2, 1>>)}>>
    ELSE <<p, {}>>

\* lines 1099-1125: the scale picker overlay
updateScalePicker(msg) ==
    IF msg.type = "scaleSelectedMsg"
    THEN Return([self EXCEPT
                   !.Monitors = IF selectedValid
                                THEN [Monitors EXCEPT ![Selected + 1].Scale = msg.scale]
                                ELSE Monitors,
                   !.ShowScalePicker = FALSE], {})
    ELSE IF msg.type = "scaleCancelledMsg"
    THEN Return([self EXCEPT !.ShowScalePicker = FALSE], {})
    ELSE LET r == scalePickerUpdate(ScalePicker, msg)
         IN  Return([self EXCEPT !.ScalePicker = r[1]], r[2])

\* "None", the first entry of the mirror picker
NoneOption == <<78, 111, 110, 101>>

\* newMirrorPicker, the loop over allMonitors: the names offered as sources
RECURSIVE availableLoop(_, _, _, _)
availableLoop(i, currentMonitor, allMonitors, availableMonitors) ==
    IF i > Len(allMonitors) THEN availableMonitors
    ELSE LET mon == allMonitors[i]
         IN  availableLoop(i + 1, currentMonitor, allMonitors,
                 IF /\ mon.Name # currentMonitor /\ mon.Active /\ ~mon.IsMirrored
                    /\ ~wouldCreateCircularMirror(currentMonitor, mon.Name, allMonitors)
                 THEN Append(availableMonitors, mon.Name)
                 ELSE availableMonitors)

\* the Go index of the first entry equal to name from TLA+ index i on, or 0
RECURSIVE sourceIndex(_, _, _)
sourceIndex(i, availableMonitors, name) ==
    IF i > Len(availableMonitors) THEN 0
    ELSE IF availableMonitors[i] = name THEN i - 1
    ELSE sourceIndex(i + 1, availableMonitors, name)

\* newMirrorPicker: of the picker's fields a handler reads availableMonitors
\* and selected
newMirrorPicker(currentMonitor, currentSource, allMonitors) ==
    LET availableMonitors ==
            availableLoop(1, currentMonitor, allMonitors, << NoneOption >>)
    IN  [availableMonitors |-> availableMonitors,
         selected |-> IF currentSource # << >>
                      THEN sourceIndex(1, availableMonitors, currentSource)
                      ELSE 0]

\* mirrorPickerModel.Update: <<picker, commands>>
mirrorPickerUpdate(p, msg) ==
    IF msg.type # "KeyMsg" THEN <<p, {}>>
    ELSE IF msg.key \in {"up", "k"}
    THEN <<IF p.selected > 0 THEN [p EXCEPT !.selected = @ - 1] ELSE p, {}>>
    ELSE IF msg.key \in {"down", "j"}
    THEN <<IF p.selected < Len(p.availableMonitors) - 1
           THEN [p EXCEPT !.selected = @ + 1] ELSE p, {}>>
    ELSE IF msg.key = "enter"
    THEN <<p, {MirrorSelectedCmd(IF p.selected > 0
                                 THEN p.availableMonitors[p.selected + 1]
                                 ELSE << >>)}>>
    ELSE IF msg.key \in {"esc", "q"} THEN <<p, {MirrorCancelledCmd}>>
    ELSE <<p, {}>>

\* the TLA+ index of the first monitor called name, or 0
RECURSIVE firstNamed(_, _, _)
firstNamed(i, monitors, name) ==
    IF i > Len(monitors) THEN 0
    ELSE IF monitors[i].Name = name THEN i
    ELSE firstNamed(i + 1, monitors, name)

\* append(targets[:j], targets[j+1:]...) for the first j with targets[j] = name
RECURSIVE removeTarget(_, _)
removeTarget(targets, name) ==
    IF targets = << >> THEN << >>
    ELSE IF Head(targets) = name THEN Tail(targets)
    ELSE << Head(targets) >> \o removeTarget(Tail(targets), name)

\* lines 1168-1182: the selected monitor leaves the targets of its source
clearMirror(monitors, sel) ==
    LET mon == monitors[sel]
        i == firstNamed(1, monitors, mon.MirrorSource)
    IN  IF mon.IsMirrored /\ mon.MirrorSource # << >> /\ i > 0
        THEN [monitors EXCEPT ![i].MirrorTargets = removeTarget(@, mon.Name)]
        ELSE monitors

\* a variant that mirrors without telling the source
setMirror_TargetsUntouched(monitors, sel, source) ==
    IF source = << >>
    THEN [monitors EXCEPT ![sel].IsMirrored = FALSE, ![sel].MirrorSource = << >>]
    ELSE [monitors EXCEPT ![sel].IsMirrored = TRUE, ![sel].MirrorSource = source]

\* lines 1184-1200: mirroring is disabled, or enabled and the source told
setMirror(monitors, sel, source) ==
    IF source = << >>
    THEN [monitors EXCEPT ![sel].IsMirrored = FALSE, ![sel].MirrorSource = << >>]
    ELSE LET set == [monitors EXCEPT ![sel].IsMirrored = TRUE,
                                     ![sel].MirrorSource = source]
             i == firstNamed(1, set, source)
         IN  IF i > 0
             THEN [set EXCEPT ![i].MirrorTargets = Append(@, set[sel].Name)]
             ELSE set

\* lines 1159-1227: the mirror picker overlay
updateMirrorPicker(msg) ==
    IF msg.type = "mirrorSelectedMsg"
    THEN Return([self EXCEPT
                   !.Monitors = IF selectedValid
                                THEN setMirror(clearMirror(Monitors, Selected + 1),
                                               Selected + 1, msg.source)
                                ELSE Monitors,
                   !.ShowMirrorPicker = FALSE], {})
    ELSE IF msg.type = "mirrorCancelledMsg"
    THEN Return([self EXCEPT !.ShowMirrorPicker = FALSE], {})
    ELSE LET r == mirrorPickerUpdate(MirrorPicker, msg)
         IN  Return([self EXCEPT !.MirrorPicker = r[1]], r[2])

\* ---- the profile name input (profile_input.go) ----

\* the code point of a key that is one printable ASCII character; the keys
\* named by more than one character ("enter", "tab", ...) have none
keyCode ==
    [k \in {" ", ".", "/", "\\", "1", "2", "4", "?", "G", "L", "N", "Y", "a",
            "c", "f", "g", "j", "k", "m", "n", "p", "q", "r", "y", "z"} |->
        CASE k = " " -> 32 [] k = "." -> 46 [] k = "/" -> 47 [] k = "\\" -> 92
          [] k = "1" -> 49 [] k = "2" -> 50 [] k = "4" -> 52 [] k = "?" -> 63
          [] k = "G" -> 71 [] k = "L" -> 76 [] k = "N" -> 78 [] k = "Y" -> 89
          [] k = "a" -> 97 [] k = "c" -> 99 [] k = "f" -> 102 [] k = "g" -> 103
          [] k = "j" -> 106 [] k = "k" -> 107 [] k = "m" -> 109 [] k = "n" -> 110
          [] k = "p" -> 112 [] k = "q" -> 113 [] k = "r" -> 114 [] k = "y" -> 121
          [] k = "z" -> 122]

\* the keys profileInputModel.Update names in a case
editKeys ==
    {"esc", "ctrl+c", "enter", "backspace", "ctrl+h", "delete", "left", "ctrl+b",
     "right", "ctrl+f", "home", "ctrl+a", "end", "ctrl+e", "ctrl+k", "ctrl+u"}

\* unicode.IsSpace on a code point below 127
isSpace(c) == c \in {9, 10, 11, 12, 13, 32}

\* strings.TrimSpace
RECURSIVE TrimSpace(_)
TrimSpace(s) ==
    IF s = << >> THEN s
    ELSE IF isSpace(s[1]) THEN TrimSpace(Tail(s))
    ELSE IF isSpace(s[Len(s)]) THEN TrimSpace(SubSeq(s, 1, Len(s) - 1))
    ELSE s

\* strings.ReplaceAll(name, "..", ""): the occurrences from the left
RECURSIVE removeDotDot(_)
removeDotDot(s) ==
    IF Len(s) < 2 THEN s
    ELSE IF s[1] = 46 /\ s[2] = 46 THEN removeDotDot(SubSeq(s, 3, Len(s)))
    ELSE <<s[1]>> \o removeDotDot(Tail(s))

\* profile_input.go:64-68: the name the input stands for
sanitize(input) ==
    LET name == TrimSpace(input)
    IN  removeDotDot([i \in DOMAIN name |->
                         IF name[i] \in {47, 92} THEN 45 ELSE name[i]])

ProfileInputCancelCmd == [cmd |-> "profileInputCancel"]
ProfileSaveCmd(name) == [cmd |-> "profileSave", name |-> name]

\* profileInputModel.Update on the key "enter"; msg.profiles is what
\* listProfiles() returns when the handler calls it.  (The field error is
\* text for the view and is left out.)
profileEnter(p, msg) ==
    LET name == sanitize(p.input)
    IN  IF p.input = << >> \/ name = << >> THEN <<p, {}>>
        ELSE IF name \in msg.profiles
        THEN <<[p EXCEPT !.confirmOverride = TRUE, !.existingName = name], {}>>
        ELSE <<p, {ProfileSaveCmd(name)}>>

\* profileInputModel.Update: <<input, commands>>
profileInputUpdate(p, msg) ==
    LET n == Len(p.input)
        c == p.cursor
    IN  IF msg.type # "KeyMsg" THEN <<p, {}>>
        ELSE IF p.confirmOverride
        THEN IF msg.key \in {"y", "Y"} THEN <<p, {ProfileSaveCmd(p.existingName)}>>
             ELSE IF msg.key \in {"n", "N", "esc"}
             THEN <<[p EXCEPT !.confirmOverride = FALSE], {}>>
             ELSE <<p, {}>>
        ELSE IF msg.key \in {"esc", "ctrl+c"} THEN <<p, {ProfileInputCancelCmd}>>
        ELSE IF msg.key = "enter" THEN profileEnter(p, msg)
        ELSE IF msg.key \in {"backspace", "ctrl+h"}
        THEN <<IF c > 0
               THEN [p EXCEPT !.input = SubSeq(@, 1, c - 1) \o SubSeq(@, c + 1, n),
                              !.cursor = c - 1]
               ELSE p, {}>>
        ELSE IF msg.key = "delete"
        THEN <<IF c < n
               THEN [p EXCEPT !.input = SubSeq(@, 1, c) \o SubSeq(@, c + 2, n)]
               ELSE p, {}>>
        ELSE IF msg.key \in {"left", "ctrl+b"}
        THEN <<IF c > 0 THEN [p EXCEPT !.cursor = c - 1] ELSE p, {}>>
        ELSE IF msg.key \in {"right", "ctrl+f"}
        THEN <<IF c < n THEN [p EXCEPT !.cursor = c + 1] ELSE p, {}>>
        ELSE IF msg.key \in {"home", "ctrl+a"} THEN <<[p EXCEPT !.cursor = 0], {}>>
        ELSE IF msg.key \in {"end", "ctrl+e"} THEN <<[p EXCEPT !.cursor = n], {}>>
        ELSE IF msg.key = "ctrl+k"
        THEN <<[p EXCEPT !.input = SubSeq(@, 1, c)], {}>>
        ELSE IF msg.key = "ctrl+u"
        THEN <<[p EXCEPT !.input = SubSeq(@, c + 1, n), !.cursor = 0], {}>>
        ELSE IF msg.key \in DOMAIN keyCode
        THEN <<[p EXCEPT !.input = SubSeq(@, 1, c) \o <<keyCode[msg.key]>>
                                       \o SubSeq(@, c + 1, n),
                         !.cursor = c + 1], {}>>
        ELSE <<p, {}>>

\* lines 1068-1096: the profile input overlay.  saveProfile writes the
\* profile file; its result goes to the status line only.
updateProfileInput(msg) ==
    IF msg.type \in {"profileSaveMsg", "profileInputCancelMsg"}
    THEN Return([self EXCEPT !.ShowProfileInput = FALSE], {})
    ELSE LET r == profileInputUpdate(ProfileInput, msg)
         IN  Return([self EXCEPT !.ProfileInput = r[1]], r[2])

\* ---- the mode picker ----

\* a mode string "<Width>x<Height>@60.00Hz", by the numbers it is parsed to;
\* every monitor and every mode of the model runs at 60 Hz
DisplayMode(w, h) == [Width |-> w, Height |-> h]

\* the list with mode at its place by resolution, larger first
RECURSIVE insertMode(_, _)
insertMode(mode, sorted) ==
    IF sorted = << >> THEN <<mode>>
    ELSE IF mode.Width * mode.Height > sorted[1].Width * sorted[1].Height
    THEN <<mode>> \o sorted
    ELSE <<sorted[1]>> \o insertMode(mode, Tail(sorted))

\* parseDisplayModes: the modes sorted by resolution, descending
RECURSIVE parseDisplayModes(_)
parseDisplayModes(modeStrings) ==
    IF modeStrings = << >> THEN << >>
    ELSE insertMode(modeStrings[1], parseDisplayModes(Tail(modeStrings)))

\* the Go index of the first mode of the resolution from TLA+ index i on,
\* or dflt
RECURSIVE modeIndex(_, _, _, _, _)
modeIndex(i, modes, w, h, dflt) ==
    IF i > Len(modes) THEN dflt
    ELSE IF modes[i].Width = w /\ modes[i].Height = h THEN i - 1
    ELSE modeIndex(i + 1, modes, w, h, dflt)

newModePicker(currentWidth, currentHeight, availableModes) ==
    LET modes == parseDisplayModes(availableModes)
    IN  [modes |-> modes,
         selected |-> modeIndex(1, modes, currentWidth, currentHeight, 0)]

ModeCancelledCmd == [cmd |-> "modeCancelled"]
ModeSelectedCmd(mode) == [cmd |-> "modeSelected", mode |-> mode]

\* the quick selection of a resolution: keys "1" and "4"
quickSelect(p, w, h) ==
    LET i == modeIndex(1, p.modes, w, h, -1)
    IN  IF i >= 0
        THEN <<[p EXCEPT !.selected = i], {ModeSelectedCmd(p.modes[i + 1])}>>
        ELSE <<p, {}>>

\* the command of "enter" reads m.modes[m.selected] when it runs: with an
\* index out of range it panics and the program ends
modePanics(p, msg) ==
    /\ msg.type = "KeyMsg" /\ msg.key \in {"enter", " "}
    /\ ~(0 <= p.selected /\ p.selected < Len(p.modes))

\* modePickerModel.Update: <<picker, commands>>
modePickerUpdate(p, msg) ==
    IF msg.type # "KeyMsg" THEN <<p, {}>>
    ELSE IF msg.key \in {"q", "ctrl+c", "esc"} THEN <<p, {ModeCancelledCmd}>>
    ELSE IF msg.key \in {"up", "k"}
    THEN <<IF p.selected > 0 THEN [p EXCEPT !.selected = @ - 1] ELSE p, {}>>
    ELSE IF msg.key \in {"down", "j"}
    THEN <<IF p.selected < Len(p.modes) - 1
           THEN [p EXCEPT !.selected = @ + 1] ELSE p, {}>>
    ELSE IF msg.key \in {"home", "g"} THEN <<[p EXCEPT !.selected = 0], {}>>
    ELSE IF msg.key \in {"end", "G"}
    THEN <<[p EXCEPT !.selected = Len(p.modes) - 1], {}>>
    ELSE IF msg.key \in {"enter", " "}
    THEN <<p, {ModeSelectedCmd(p.modes[p.selected + 1])}>>
    ELSE IF msg.key = "1" THEN quickSelect(p, 1920, 1080)
    ELSE IF msg.key = "4" THEN quickSelect(p, 3840, 2160)
    ELSE <<p, {}>>

\* lines 1128-1156: the mode picker overlay
updateModePicker(msg) ==
    IF msg.type = "modeSelectedMsg"
    THEN Return([self EXCEPT
                   !.Monitors = IF selectedValid
                                THEN [Monitors EXCEPT
                                        ![Selected + 1].PxW = msg.mode.Width,
                                        ![Selected + 1].PxH = msg.mode.Height]
                                ELSE Monitors,
                   !.ShowModePicker = FALSE], {})
    ELSE IF msg.type = "modeCancelledMsg"
    THEN Return([self EXCEPT !.ShowModePicker = FALSE], {})
    ELSE LET r == modePickerUpdate(ModePicker, msg)
         IN  Return([self EXCEPT !.ModePicker = r[1]], r[2])

\* getAvailableModes: read is what hyprctl returns when the handler calls
\* it, its error and the modes it lists for the monitor called monitorName
getAvailableModes(monitorName, read) ==
    IF read.err \/ firstNamed(1, hypr, monitorName) = 0
    THEN [err |-> TRUE, modes |-> << >>]
    ELSE [err |-> FALSE, modes |-> read.modes]

\* the "f" case of handleKey
openModePicker(msg) ==
    LET mon == Monitors[Selected + 1]
        modes == getAvailableModes(mon.Name, msg.hyprctl)
    IN  IF modes.err THEN self
        ELSE [self EXCEPT !.ModePicker = newModePicker(mon.PxW, mon.PxH, modes.modes),
                          !.ShowModePicker = TRUE]

fieldBitDepth == 0
fieldColorMode == 1
fieldSDRBrightness == 2
fieldSDRSaturation == 3
fieldVRR == 4
fieldTransform == 5
fieldCount == 6

\* strings.Contains(ColorMode, "hdr") over the modes the dialog can set
isHDR(mon) == mon.ColorMode \in {"hdr", "hdredid"}

\* navigateDown: the new focusedField
navigateDown(focusedField, mon) ==
    LET f1 == focusedField + 1
        f2 == IF ~isHDR(mon) /\ f1 \in {fieldSDRBrightness, fieldSDRSaturation}
              THEN fieldVRR ELSE f1
    IN  IF f2 >= fieldCount THEN 0 ELSE f2

\* navigateUp: the new focusedField
navigateUp(focusedField, mon) ==
    LET f1 == focusedField - 1
        f2 == IF ~isHDR(mon) /\ f1 \in {fieldSDRSaturation, fieldSDRBrightness}
              THEN fieldColorMode ELSE f1
    IN  IF f2 < 0 THEN fieldCount - 1 ELSE f2

colorModes == <<"auto", "srgb", "wide", "edid", "hdr", "hdredid">>

\* the Go index of ColorMode in modes, 0 when it is not there
colorModeIndex(mode) ==
    IF \E i \in 1 .. Len(colorModes) : colorModes[i] = mode
    THEN (CHOOSE i \in 1 .. Len(colorModes) : colorModes[i] = mode) - 1
    ELSE 0

\* toggleValue: the monitor the dialog points to, after the toggle (the
\* focus correction of the ColorMode case cannot fire: the focus is on
\* ColorMode there)
toggleValue(focusedField, mon) ==
    IF focusedField = fieldBitDepth
    THEN [mon EXCEPT !.BitDepth = IF @ = 8 THEN 10 ELSE 8]
    ELSE IF focusedField = fieldColorMode
    THEN [mon EXCEPT !.ColorMode =
             colorModes[((colorModeIndex(@) + 1) % Len(colorModes)) + 1]]
    ELSE IF focusedField = fieldVRR
    THEN [mon EXCEPT !.VRR = (@ + 1) % 3]
    ELSE IF focusedField = fieldTransform
    THEN [mon EXCEPT !.Transform = (@ + 1) % 8]
    ELSE mon

\* float32(0.1) in units
SDRDelta == 26843546

\* v += float32(delta) * 0.1, then the two limits, on units
adjustStep(v, delta, min, max) ==
    LET sum == RoundF32(ScaleUnits(v) + delta * SDRDelta)
    IN  ScaleOfUnits(IF sum < min THEN min ELSE IF sum > max THEN max ELSE sum)

\* adjustValue: the monitor the dialog points to, after the adjustment
adjustValue(focusedField, mon, delta) ==
    IF focusedField = fieldSDRBrightness
    THEN [mon EXCEPT !.SDRBrightness =
             adjustStep(@, delta, ScaleUnit \div 2, 2 * ScaleUnit)]
    ELSE IF focusedField = fieldSDRSaturation
    THEN [mon EXCEPT !.SDRSaturation =
             adjustStep(@, delta, ScaleUnit \div 2, 3 * (ScaleUnit \div 2))]
    ELSE mon

\* lines 1230-1254 and advancedSettingsModel.Update: the advanced dialog
updateAdvancedSettings(msg) ==
    LET d == AdvancedSettings
        mon == Monitors[d.monitor + 1]
    IN  IF msg.type = "WindowSizeMsg"
        THEN Return([self EXCEPT !.AdvancedSettings =
                        [d EXCEPT !.width = msg.Width, !.height = msg.Height]], {})
        ELSE IF msg.type # "KeyMsg" THEN Return(self, {})
        ELSE IF msg.key \in {"enter", "esc"}
        THEN Return([self EXCEPT !.ShowAdvancedSettings = FALSE], {})
        ELSE IF msg.key \in {"up", "shift+tab"}
        THEN Return([self EXCEPT !.AdvancedSettings.focusedField =
                        navigateUp(d.focusedField, mon)], {})
        ELSE IF msg.key \in {"down", "tab"}
        THEN Return([self EXCEPT !.AdvancedSettings.focusedField =
                        navigateDown(d.focusedField, mon)], {})
        ELSE IF msg.key = "left"
        THEN Return([self EXCEPT !.Monitors[d.monitor + 1] =
                        adjustValue(d.focusedField, mon, -1)], {})
        ELSE IF msg.key = "right"
        THEN Return([self EXCEPT !.Monitors[d.monitor + 1] =
                        adjustValue(d.focusedField, mon, 1)], {})
        ELSE IF msg.key \in {" ", "space"}
        THEN Return([self EXCEPT !.Monitors[d.monitor + 1] =
                        toggleValue(d.focusedField, mon)], {})
        ELSE Return(self, {})

\* countActiveMonitors
RECURSIVE countActive(_, _)
countActive(mons, i) ==
    IF i > Len(mons) THEN 0
    ELSE (IF mons[i].Active THEN 1 ELSE 0) + countActive(mons, i + 1)

countActiveMonitors == countActive(Monitors, 1)

\* a variant that lets every monitor of the list be disabled
canDisableMonitor_Always(index) == index >= 0 /\ index < Len(Monitors)

canDisableMonitor(index) ==
    IF index < 0 \/ index >= Len(Monitors) THEN FALSE
    ELSE IF ~Monitors[index + 1].Active THEN TRUE
    ELSE countActiveMonitors > 1

\* the toggle of Active shared by the right press and the enter key
toggleActive(index) ==
    IF canDisableMonitor(index)
    THEN [self EXCEPT !.Monitors[index + 1].Active = ~@]
    ELSE self

\* beginDrag on the monitor a left press has just selected
beginDrag(hit, msg) ==
    LET mon == Monitors[hit + 1]
        w == termToWorld(msg.X, msg.Y)
    IN  [self EXCEPT !.Selected = hit,
                     !.Monitors[hit + 1] =
                         [mon EXCEPT !.Dragging = TRUE,
                                     !.DragOffX = w[1] - mon.X,
                                     !.DragOffY = w[2] - mon.Y]]

\* the selected monitor at <<x, y>>, with the given guide list
placeSelected(x, y, guides) ==
    [self EXCEPT !.Monitors[Selected + 1].X = x,
                 !.Monitors[Selected + 1].Y = y,
                 !.Guides = guides]

\* the assignment mon.X, mon.Y, m.Guides = m.snapPosition(...)
placeSnapped(acc) == placeSelected(acc.newX, acc.newY, acc.guides)

\* the tail shared by dragMove and the nudge keys: the selected monitor
\* goes to the snapped position when snapping is on and to <<x, y>> when
\* it is off, where the guides become unsnapped
moveSelected(mon, x, y, unsnapped) ==
    IF Snap # SnapOff
    THEN placeSnapped(snapPosition(mon, x, y))
    ELSE placeSelected(x, y, unsnapped)

\* the grid quantisation of dragMove: Go's integer division truncates
quantise(v) == IF GridPx > 1 THEN TruncDiv(v, GridPx) * GridPx ELSE v

\* dragMove once the selected monitor mon is known to be dragged: w is
\* the world position of the pointer
dragTo(mon, w) ==
    moveSelected(mon, quantise(w[1] - mon.DragOffX), quantise(w[2] - mon.DragOffY),
                 Guides)

dragMove(msg) ==
    IF ~selectedValid THEN self
    ELSE IF ~Monitors[Selected + 1].Dragging THEN self
    ELSE dragTo(Monitors[Selected + 1], termToWorld(msg.X, msg.Y))

endDrag ==
    IF ~selectedValid THEN self
    ELSE [self EXCEPT !.Monitors[Selected + 1].Dragging = FALSE, !.Guides = << >>]

\* the wheel cases of handleMouse: sign is 1 for wheel up, -1 for wheel down
wheelScale(sign) ==
    IF selectedValid
    THEN [self EXCEPT !.Monitors[Selected + 1].Scale = ScaleStep(@, sign)]
    ELSE self

\* the left and right press cases of handleMouse, hit being the monitor
\* under the pointer
pressOn(hit, msg) ==
    IF hit < 0 THEN self
    ELSE IF msg.Button = "left" THEN beginDrag(hit, msg)
    ELSE toggleActive(hit)

\* lines 1319-1372 (MouseX, MouseY and Status are written and never read
\* by a handler: they are left out)
handleMouse(msg) ==
    IF msg.Action = "press"
    THEN IF msg.Button \in {"left", "right"}
         THEN Return(pressOn(hitTest(msg.X, msg.Y - 2), msg), {})
         ELSE IF msg.Button \in {"wheelUp", "wheelDown"}
         THEN Return(wheelScale(IF msg.Button = "wheelUp" THEN 1 ELSE -1), {})
         ELSE Return(self, {})
    ELSE IF msg.Action = "release"
    THEN Return(IF msg.Button = "left" /\ selectedValid THEN endDrag ELSE self, {})
    ELSE IF msg.Action = "motion"
    THEN Return(dragMove(msg), {})
    ELSE Return(self, {})

nudgeKeys ==
    {"up", "k", "shift+up", "K", "down", "j", "shift+down", "J",
     "left", "h", "shift+left", "H", "right", "l", "shift+right"}

\* the step of a nudge key: GridPx, ten times that with shift
nudgeStep(key) ==
    IF key \in {"shift+up", "K", "shift+down", "J", "shift+left", "H", "shift+right"}
    THEN GridPx * 10 ELSE GridPx

nudgeDX(key) ==
    IF key \in {"left", "h", "shift+left", "H"} THEN 0 - nudgeStep(key)
    ELSE IF key \in {"right", "l", "shift+right"} THEN nudgeStep(key)
    ELSE 0

nudgeDY(key) ==
    IF key \in {"up", "k", "shift+up", "K"} THEN 0 - nudgeStep(key)
    ELSE IF key \in {"down", "j", "shift+down", "J"} THEN nudgeStep(key)
    ELSE 0

\* the eight nudge cases of handleKey: the selected monitor moves by
\* <<dx, dy>> and is then snapped, or the guides are dropped
nudge(dx, dy) ==
    IF ~selectedValid THEN self
    ELSE moveSelected([Monitors[Selected + 1] EXCEPT !.X = @ + dx, !.Y = @ + dy],
                      Monitors[Selected + 1].X + dx, Monitors[Selected + 1].Y + dy,
                      << >>)

grids == <<1, 8, 16, 32, 64>>

\* the "g" case: the grid after GridPx in grids, the second one when GridPx
\* is not in the list
nextGrid ==
    LET currentIdx == IF \E i \in 1 .. Len(grids) : grids[i] = GridPx
                      THEN (CHOOSE i \in 1 .. Len(grids) : grids[i] = GridPx) - 1
                      ELSE 0
    IN  grids[((currentIdx + 1) % Len(grids)) + 1]

\* the "c" case: defaults for the unset advanced fields, then the dialog
openAdvancedSettings ==
    LET mon == Monitors[Selected + 1]
        set == [mon EXCEPT
                  !.BitDepth = IF @ = 0 THEN 8 ELSE @,
                  !.ColorMode = IF @ = "" THEN "srgb" ELSE @,
                  !.SDRBrightness = IF @ = <<0, 1>> THEN <<1, 1>> ELSE @,
                  !.SDRSaturation = IF @ = <<0, 1>> THEN <<1, 1>> ELSE @]
    IN  [self EXCEPT !.Monitors[Selected + 1] = set,
                     !.AdvancedSettings =
                         [monitor |-> Selected, focusedField |-> 0,
                          width |-> 0, height |-> 0],
                     !.ShowAdvancedSettings = TRUE]

\* lines 1374-1590
handleKey(msg) ==
    LET key == msg.key
    IN  IF key = "?" THEN Return([self EXCEPT !.ShowHelp = TRUE], {})
        ELSE IF key = "tab"
        THEN Return(IF Len(Monitors) > 0
                    THEN [self EXCEPT !.Selected = (Selected + 1) % Len(Monitors)]
                    ELSE self, {})
        ELSE IF key = "shift+tab"
        THEN Return(IF Len(Monitors) > 0
                    THEN [self EXCEPT !.Selected =
                             (Selected - 1 + Len(Monitors)) % Len(Monitors)]
                    ELSE self, {})
        ELSE IF key \in nudgeKeys THEN Return(nudge(nudgeDX(key), nudgeDY(key)), {})
        ELSE IF key \in {"g", "G"} THEN Return([self EXCEPT !.GridPx = nextGrid], {})
        ELSE IF key = "L" THEN Return([self EXCEPT !.Snap = (Snap + 1) % 4], {})
        ELSE IF key \in {"r", "R"}
        THEN Return(IF selectedValid
                    THEN [self EXCEPT
                            !.ScalePicker = newScalePicker(Monitors[Selected + 1].Scale),
                            !.ShowScalePicker = TRUE]
                    ELSE self, {})
        ELSE IF key \in {"m", "M"}
        THEN Return(IF selectedValid
                    THEN [self EXCEPT
                            !.MirrorPicker =
                                newMirrorPicker(Monitors[Selected + 1].Name,
                                                Monitors[Selected + 1].MirrorSource,
                                                Monitors),
                            !.ShowMirrorPicker = TRUE]
                    ELSE self, {})
        ELSE IF key \in {"f", "F"}
        THEN Return(IF selectedValid THEN openModePicker(msg) ELSE self, {})
        ELSE IF key \in {"c", "C", "d", "D"}
        THEN Return(IF selectedValid THEN openAdvancedSettings ELSE self, {})
        ELSE IF key \in {"p", "P"}
        THEN Return([self EXCEPT !.ProfileInput = NoProfileInput,
                                 !.ShowProfileInput = TRUE], {})
        ELSE IF key \in {"a", "A"}
        THEN [m |-> self, cmd |-> {ApplyCmd(Monitors)},
              previousMonitors |-> [saved |-> TRUE, monitors |-> Monitors]]
        ELSE IF key \in {"z", "Z"} THEN Return(self, {RevertCmd})
        ELSE IF key \in {"enter", " "}
        THEN Return(IF selectedValid THEN toggleActive(Selected) ELSE self, {})
        ELSE Return(self, {})

\* a variant of the initMsg case that keeps the selection
loadMonitors_KeepSelected(msg) ==
    [self EXCEPT !.Monitors = msg.monitors,
                 !.World = updateWorld(msg.monitors)]

\* lines 1266-1271: the initMsg case without an error
loadMonitors(msg) ==
    [self EXCEPT !.Monitors = msg.monitors,
                 !.Selected = IF Len(msg.monitors) > 0 THEN 0 ELSE @,
                 !.World = updateWorld(msg.monitors)]

\* lines 1256-1314: the switch Update reaches when no overlay is open
updateMain(msg) ==
    IF msg.type = "WindowSizeMsg"
    THEN Return([self EXCEPT !.World.TermW = msg.Width,
                             !.World.TermH = msg.Height], {})
    ELSE IF msg.type = "initMsg"
    THEN IF msg.err THEN Return(self, {WindowSizeCmd})
         ELSE Return(loadMonitors(msg), {WindowSizeCmd})
    ELSE IF msg.type = "MouseMsg" THEN handleMouse(msg)
    ELSE IF msg.type = "KeyMsg" THEN handleKey(msg)
    ELSE IF msg.type = "revertMsg" THEN Return(self, {LoadCmd})
    ELSE Return(self, {})

\* a variant of the routing in which the help overlay takes no message
overlay_HelpNotRouted ==
    IF ShowProfileInput THEN "ProfileInput"
    ELSE IF ShowScalePicker THEN "ScalePicker"
    ELSE IF ShowModePicker THEN "ModePicker"
    ELSE IF ShowMirrorPicker THEN "MirrorPicker"
    ELSE IF ShowAdvancedSettings THEN "AdvancedSettings"
    ELSE "none"

\* the overlay whose branch Update takes: the flags in the order of its
\* if statements (lines 999, 1068, 1099, 1128, 1159, 1230)
overlay ==
    IF ShowHelp THEN "Help"
    ELSE IF ShowProfileInput THEN "ProfileInput"
    ELSE IF ShowScalePicker THEN "ScalePicker"
    ELSE IF ShowModePicker THEN "ModePicker"
    ELSE IF ShowMirrorPicker THEN "MirrorPicker"
    ELSE IF ShowAdvancedSettings THEN "AdvancedSettings"
    ELSE "none"

\* model.Update, lines 997-1317
Update(msg) ==
    LET shown == overlay
    IN  IF shown = "Help" THEN updateHelp(msg)
        ELSE IF shown = "ProfileInput" THEN updateProfileInput(msg)
        ELSE IF shown = "ScalePicker" THEN updateScalePicker(msg)
        ELSE IF shown = "ModePicker" THEN updateModePicker(msg)
        ELSE IF shown = "MirrorPicker" THEN updateMirrorPicker(msg)
        ELSE IF shown = "AdvancedSettings" THEN updateAdvancedSettings(msg)
        ELSE updateMain(msg)

\* what the model does not cover: the keys that quit the program, save
\* the configuration or leave for the profiles page, scrolling of the help
\* text, a key typed into the profile input that is neither an editing key
\* nor a character with a code point in keyCode, a key that makes the mode
\* picker panic.  A key whose handler reads from outside the program
\* carries what it reads (profiles, hyprctl).
Modelled(msg) ==
    /\ msg.type = "KeyMsg" =>
         IF ShowHelp
         THEN msg.key \notin {"up", "k", "down", "j", "pgup", "pgdown", "home", "end"}
         ELSE IF ShowProfileInput
         THEN /\ msg.key # "ctrl+c"
              /\ msg.key \in editKeys \cup DOMAIN keyCode
                              \cup {"tab", "shift+tab", "up", "down"}
              /\ (msg.key = "enter" /\ ~ProfileInput.confirmOverride)
                    => "profiles" \in DOMAIN msg
         ELSE IF ShowScalePicker THEN msg.key \notin {"q", "ctrl+c"}
         ELSE IF ShowModePicker
         THEN msg.key \notin {"q", "ctrl+c"} /\ ~modePanics(ModePicker, msg)
         ELSE IF ShowMirrorPicker THEN msg.key \notin {"q", "ctrl+c"}
         ELSE IF ShowAdvancedSettings THEN msg.key # "ctrl+c"
         ELSE /\ msg.key \notin {"q", "ctrl+c", "s", "S", "o", "O"}
              /\ msg.key \in {"f", "F"} => "hyprctl" \in DOMAIN msg
    /\ (msg.type = "MouseMsg" /\ ShowHelp /\ msg.Action = "press")
         => msg.Button \notin {"wheelUp", "wheelDown"}

\* the kind of a message: its type, for the mouse what was done, for a
\* revertMsg its fields
Handled(msg) ==
    IF msg.type = "MouseMsg"
    THEN [type |-> msg.type, Action |-> msg.Action, Button |-> msg.Button]
    ELSE IF msg.type = "revertMsg" THEN msg
    ELSE [type |-> msg.type]

\* an initMsg that replaces m.Monitors: from then on a running apply task
\* and the session hold different backing arrays
Detach(c) ==
    IF c.cmd = "apply" /\ c.shared
    THEN [c EXCEPT !.shared = FALSE, !.own = Monitors]
    ELSE c

\* the state after Update has returned r: the model is replaced, the
\* commands of r start running, the commands in done have delivered msg
Becomes(r, msg, done, replaces) ==
    /\ Monitors' = r.m.Monitors
    /\ Selected' = r.m.Selected
    /\ Snap' = r.m.Snap
    /\ SnapThresh' = r.m.SnapThresh
    /\ World' = r.m.World
    /\ Guides' = r.m.Guides
    /\ GridPx' = r.m.GridPx
    /\ ShowHelp' = r.m.ShowHelp
    /\ ShowProfileInput' = r.m.ShowProfileInput
    /\ ShowScalePicker' = r.m.ShowScalePicker
    /\ ShowModePicker' = r.m.ShowModePicker
    /\ ShowMirrorPicker' = r.m.ShowMirrorPicker
    /\ ShowAdvancedSettings' = r.m.ShowAdvancedSettings
    /\ ProfileInput' = r.m.ProfileInput
    /\ ScalePicker' = r.m.ScalePicker
    /\ ModePicker' = r.m.ModePicker
    /\ MirrorPicker' = r.m.MirrorPicker
    /\ AdvancedSettings' = r.m.AdvancedSettings
    /\ previousMonitors' = r.previousMonitors
    /\ pending' = (IF replaces THEN { Detach(c) : c \in pending \ done }
                   ELSE pending \ done) \cup r.cmd
    /\ ret' = [op |-> "Update", msg |-> Handled(msg)]

\* one turn of the event loop on msg
Deliver(msg, done) ==
    /\ Modelled(msg)
    /\ Becomes(Update(msg), msg, done,
               /\ msg.type = "initMsg" /\ ~msg.err
               /\ ~ShowHelp /\ ~ShowProfileInput /\ ~ShowScalePicker
               /\ ~ShowModePicker /\ ~ShowMirrorPicker
               /\ ~ShowAdvancedSettings)

envVars == <<tty, notified, hypr, count>>

\* one more event of a bounded kind
Spend(kind, max) ==
    /\ count[kind] < max
    /\ count' = [count EXCEPT ![kind] = @ + 1]

MaxWheels == 2
MaxMoves == 2
MaxResizes == 1
MaxApplies == 1
MaxReverts == 1
MaxToggles == 3

\* the cells the mouse is pressed on and moved to: on an 80 x 24 terminal
\* and the canvas of two 1920 x 1080 monitors side by side, column 10 is
\* over the first monitor and column 40 over the second
TtySizes == {<<80, 24>>, <<120, 40>>}
PressCols == {10, 40}
PressRows == {4}
MotionCols == {10, 12, 40}
MotionRows == {4, 8}

\* the state in which tea.Program starts the event loop: initialModel, and
\* the two commands of Init running
SessionStart ==
    /\ Monitors = << >>
    /\ Selected = 0
    /\ Snap = SnapOff
    /\ SnapThresh = 10
    /\ World = updateWorld(<< >>)
    /\ Guides = << >>
    /\ IdleOverlays
    /\ ret = NoCall
    /\ pending = {LoadCmd, WindowSizeCmd}
    /\ notified = NoSize
    /\ count = NoEvents

\* ---- commands completing ----

\* readMonitors, the second pass from TLA+ index i on: each mirroring
\* monitor is added to the targets of the first monitor it names
RECURSIVE targetsLoop(_, _)
targetsLoop(i, monitors) ==
    IF i > Len(monitors) THEN monitors
    ELSE LET j == firstNamed(1, monitors, monitors[i].MirrorSource)
         IN  targetsLoop(i + 1,
                 IF monitors[i].IsMirrored /\ monitors[i].MirrorSource # << >> /\ j > 0
                 THEN [monitors EXCEPT ![j].MirrorTargets = Append(@, monitors[i].Name)]
                 ELSE monitors)

\* readMonitors on what the compositor reports (a list without targets)
readMonitors(reported) == targetsLoop(1, reported)

\* loadMonitorsCmd or reloadMonitorsCmd returns what the compositor reports
MonitorsLoaded ==
    /\ LoadCmd \in pending
    /\ Deliver(initMsg(readMonitors(hypr), FALSE), {LoadCmd})
    /\ UNCHANGED envVars

\* readMonitors fails
LoadFailed ==
    /\ LoadCmd \in pending
    /\ Deliver(initMsg(<< >>, TRUE), {LoadCmd})
    /\ UNCHANGED envVars

\* tea.WindowSize() reports the size of the terminal
WindowSizeReply ==
    /\ WindowSizeCmd \in pending
    /\ Deliver(WindowSizeMsg(tty), {WindowSizeCmd})
    /\ notified' = tty
    /\ UNCHANGED <<tty, hypr, count>>

\* rollback: the error it returns at once, or the list it hands to
\* applyMonitors
rollback_NothingToDo(previous) ==
    [err |-> "", monitors |-> IF previous.saved THEN previous.monitors ELSE << >>]

rollback(previous) ==
    IF ~previous.saved
    THEN [err |-> "no previous state to rollback to", monitors |-> << >>]
    ELSE [err |-> "", monitors |-> previous.monitors]

revertMsg(err) == [type |-> "revertMsg", success |-> err = "", err |-> err]

\* the revert command calls rollback while a list is saved: applyMonitors
\* starts on that list
RollbackStart ==
    /\ previousMonitors.saved
    /\ RevertCmd \in pending
    /\ pending' = (pending \ {RevertCmd}) \cup
           {[RevertCmd EXCEPT !.started = TRUE,
                              !.snapshot = rollback(previousMonitors).monitors,
                              !.own = rollback(previousMonitors).monitors]}
    /\ UNCHANGED <<Monitors, Selected, Snap, SnapThresh, World, Guides, ret,
                   GridPx, overlayVars, ProfileInput, ScalePicker, ModePicker,
                   MirrorPicker, AdvancedSettings,
                   previousMonitors, envVars>>

\* the revert command has returned, rollback having found nothing saved or
\* applyMonitors having come to its end: revertMsg
Reverted ==
    \E c \in pending :
        /\ c.cmd = "revert"
        /\ IF c.started
           THEN /\ c.next > Len(c.own) \/ c.err # NoError
                /\ Deliver(revertMsg(c.err.cause), {c})
           ELSE /\ ~previousMonitors.saved
                /\ Deliver(revertMsg(rollback(previousMonitors).err), {c})
        /\ UNCHANGED envVars

ScaleSelected ==
    \E c \in pending :
        /\ c.cmd = "scaleSelected"
        /\ Deliver([type |-> "scaleSelectedMsg", scale |-> c.scale], {c})
        /\ UNCHANGED envVars

ScaleCancelled ==
    /\ ScaleCancelledCmd \in pending
    /\ Deliver([type |-> "scaleCancelledMsg"], {ScaleCancelledCmd})
    /\ UNCHANGED envVars

MirrorSelected ==
    \E c \in pending :
        /\ c.cmd = "mirrorSelected"
        /\ Deliver([type |-> "mirrorSelectedMsg", source |-> c.source], {c})
        /\ UNCHANGED envVars

MirrorCancelled ==
    /\ MirrorCancelledCmd \in pending
    /\ Deliver([type |-> "mirrorCancelledMsg"], {MirrorCancelledCmd})
    /\ UNCHANGED envVars

\* what the compositor reports once it has run cmd: the monitor of that
\* name is disabled, or takes the mode, position, scale, transform and
\* mirror source of the rule; vrr is reported as on or off
compositor(reported, cmd) ==
    [k \in DOMAIN reported |->
        IF reported[k].Name # cmd.name THEN reported[k]
        ELSE IF cmd.disable THEN [reported[k] EXCEPT !.Active = FALSE]
        ELSE [reported[k] EXCEPT
                !.PxW = cmd.mode[1], !.PxH = cmd.mode[2],
                !.X = cmd.position[1], !.Y = cmd.position[2],
                !.Scale = Float32OfHundredths(cmd.scale),
                !.Active = TRUE,
                !.Transform = cmd.transform,
                !.VRR = IF cmd.vrr > 0 THEN 1 ELSE 0,
                !.IsMirrored = cmd.mirror # << >>,
                !.MirrorSource = cmd.mirror]]

\* the task after an iteration of the loop of applyMonitors on m, r being
\* what applyMonitor(m) returned: the error ends the loop
applyMonitors_SkipFailed(c, m, r) ==
    IF r.err = ""
    THEN [c EXCEPT !.next = @ + 1, !.sent = Append(@, m)]
    ELSE [c EXCEPT !.next = @ + 1]

applyMonitors(c, m, r) ==
    IF r.err = ""
    THEN [c EXCEPT !.next = @ + 1, !.sent = Append(@, m)]
    ELSE [c EXCEPT !.err = [cause |-> r.err, monitor |-> m.Name]]

\* a running applyMonitors, started by applyCmd or by rollback, makes its
\* next iteration: it copies the next element of its slice and calls
\* applyMonitor, whose command the compositor runs unless sh -c fails
ApplyNext(c, m, r) ==
    /\ pending' = (pending \ {c}) \cup {applyMonitors(c, m, r)}
    /\ hypr' = IF r.cmd.run /\ r.err = "" THEN compositor(hypr, r.cmd) ELSE hypr
    /\ count' = [count EXCEPT !.commands = IF r.cmd.run THEN @ + 1 ELSE @]
    /\ UNCHANGED <<Monitors, Selected, Snap, SnapThresh, World, Guides, ret,
                   GridPx, overlayVars, ProfileInput, ScalePicker, ModePicker,
                   MirrorPicker, AdvancedSettings,
                   previousMonitors, tty, notified>>

\* the element a task reads next
NextOf(c) == IF c.shared THEN Monitors[c.next] ELSE c.own[c.next]

Running(c) ==
    /\ c.cmd \in {"apply", "revert"}
    /\ c.started
    /\ c.err = NoError
    /\ c.next <= Len(c.snapshot)

\* an iteration in which sh -c succeeds, if applyMonitor comes to run it
ApplyStep ==
    \E c \in pending :
        /\ Running(c)
        /\ ApplyNext(c, NextOf(c), applyMonitor(NextOf(c), ""))

\* an iteration in which sh -c fails
ApplyFails ==
    \E c \in pending :
        /\ Running(c)
        /\ applyMonitor(NextOf(c), "").cmd.run
        /\ ApplyNext(c, NextOf(c), applyMonitor(NextOf(c), "exit status 1"))

\* applyMonitors has returned to applyCmd: applyMsg
Applied ==
    \E c \in pending :
        /\ c.cmd = "apply"
        /\ c.next > Len(c.snapshot) \/ c.err # NoError
        /\ Deliver([type |-> "applyMsg"], {c})
        /\ UNCHANGED envVars

\* ---- the terminal ----

\* the user resizes the terminal: a WindowSizeMsg with the new size
Resize ==
    \E size \in TtySizes :
        /\ size # tty
        /\ Spend("resize", MaxResizes)
        /\ tty' = size
        /\ notified' = size
        /\ Deliver(WindowSizeMsg(size), {})
        /\ UNCHANGED hypr

\* ---- the mouse ----

WheelUp ==
    /\ Spend("wheel", MaxWheels)
    /\ Deliver(MouseMsg("press", "wheelUp", 0, 0), {})
    /\ UNCHANGED <<tty, notified, hypr>>

WheelDown ==
    /\ Spend("wheel", MaxWheels)
    /\ Deliver(MouseMsg("press", "wheelDown", 0, 0), {})
    /\ UNCHANGED <<tty, notified, hypr>>

LeftPress ==
    \E x \in PressCols, y \in PressRows :
        /\ Deliver(MouseMsg("press", "left", x, y), {})
        /\ UNCHANGED envVars

LeftRelease ==
    /\ Deliver(MouseMsg("release", "left", 0, 0), {})
    /\ UNCHANGED envVars

RightPress ==
    \E x \in PressCols, y \in PressRows :
        /\ Deliver(MouseMsg("press", "right", x, y), {})
        /\ UNCHANGED envVars

Motion ==
    \E x \in MotionCols, y \in MotionRows :
        /\ Spend("move", MaxMoves)
        /\ Deliver(MouseMsg("motion", "none", x, y), {})
        /\ UNCHANGED <<tty, notified, hypr>>

\* ---- the keyboard ----

KeyHelp == Deliver(KeyMsg("?"), {}) /\ UNCHANGED envVars
KeyEsc == Deliver(KeyMsg("esc"), {}) /\ UNCHANGED envVars
KeyEnter == Deliver(KeyMsg("enter"), {}) /\ UNCHANGED envVars
KeySpace == Deliver(KeyMsg(" "), {}) /\ UNCHANGED envVars
KeyTab == Deliver(KeyMsg("tab"), {}) /\ UNCHANGED envVars
KeyShiftTab == Deliver(KeyMsg("shift+tab"), {}) /\ UNCHANGED envVars
KeyUp == Deliver(KeyMsg("up"), {}) /\ UNCHANGED envVars
KeyDown == Deliver(KeyMsg("down"), {}) /\ UNCHANGED envVars
KeySnap == Deliver(KeyMsg("L"), {}) /\ UNCHANGED envVars
KeyGrid == Deliver(KeyMsg("g"), {}) /\ UNCHANGED envVars
KeyScale == Deliver(KeyMsg("r"), {}) /\ UNCHANGED envVars
KeyAdvanced == Deliver(KeyMsg("c"), {}) /\ UNCHANGED envVars
KeyMirror == Deliver(KeyMsg("m"), {}) /\ UNCHANGED envVars

\* the left arrow
KeyLeft ==
    /\ Spend("move", MaxMoves)
    /\ Deliver(KeyMsg("left"), {})
    /\ UNCHANGED <<tty, notified, hypr>>

\* the right arrow
KeyRight ==
    /\ Spend("move", MaxMoves)
    /\ Deliver(KeyMsg("right"), {})
    /\ UNCHANGED <<tty, notified, hypr>>

KeyApply ==
    /\ Spend("apply", MaxApplies)
    /\ Deliver(KeyMsg("a"), {})
    /\ UNCHANGED <<tty, notified, hypr>>

KeyRevert ==
    /\ Spend("revert", MaxReverts)
    /\ Deliver(KeyMsg("z"), {})
    /\ UNCHANGED <<tty, notified, hypr>>

\* no picker message is on its way to the event loop
Settled == \A c \in pending : c.cmd \notin {"scaleSelected", "scaleCancelled"}

-----------------------------------------------------------------------------
(* Scale and transform changes: SpecScale.  One monitor is loaded, with a  *)
(* scale below or above the range of the wheel.  In one session the user   *)
(* either turns the wheel and picks scales in the scale picker, or opens   *)
(* the advanced dialog and toggles the transform; a key is pressed only    *)
(* when the picker's last message has been delivered.                      *)

ScaleReports ==
    { Named(<< Mon(1920, 1080, s, 0, 0, TRUE, 0) >>) : s \in { <<1, 4>>, <<4, 1>> } }

InitScale ==
    /\ SessionStart
    /\ tty = <<80, 24>>
    /\ hypr \in ScaleReports

\* the session has not opened the advanced dialog
ScaleScenario == AdvancedSettings = NoSettings

\* the session has neither turned the wheel nor opened the scale picker
DialogScenario == ScalePicker = NoPicker /\ count.wheel = 0

NextScale ==
    \/ MonitorsLoaded
    \/ WindowSizeReply
    \/ ScaleSelected
    \/ ScaleCancelled
    \/ (Settled /\ ScaleScenario) /\ WheelUp
    \/ (Settled /\ ScaleScenario) /\ WheelDown
    \/ (Settled /\ ScaleScenario) /\ KeyScale
    \/ (Settled /\ ShowScalePicker) /\ KeyUp
    \/ (Settled /\ ShowScalePicker) /\ KeyDown
    \/ Settled /\ KeyEnter
    \/ Settled /\ KeyEsc
    \/ (Settled /\ DialogScenario) /\ KeyAdvanced
    \/ ShowAdvancedSettings /\ KeyShiftTab
    \/ (ShowAdvancedSettings => AdvancedSettings.focusedField = fieldTransform) /\ KeySpace

SpecScale == InitScale /\ [][NextScale]_vars

ScaleInRange(scale) ==
    /\ ScaleUnits(scale) >= ScaleUnit \div 2
    /\ ScaleUnits(scale) <= 3 * ScaleUnit

\* C20: a monitor's Scale is the one it was loaded with or lies within
\* [0.5, 3.0], whatever wheel events and scale-picker selections were
\* handled, and its Transform lies within 0..7 after any number of toggles
\* in the advanced dialog
C20_ScaleAndTransformInRange ==
    \A i \in 1 .. Len(Monitors) :
        /\ Monitors[i].Scale = hypr[i].Scale \/ ScaleInRange(Monitors[i].Scale)
        /\ Monitors[i].Transform \in 0 .. 7

\* a monitor loaded with scale 4 that the wheel has brought to 3.0, or one
\* that seven toggles have brought to transform 7
C20_Witness ==
    /\ Len(Monitors) = 1
    /\ \/ hypr[1].Scale = <<4, 1>> /\ Monitors[1].Scale = <<3, 1>> /\ count.wheel = 1
       \/ Monitors[1].Transform = 7 /\ ShowAdvancedSettings

-----------------------------------------------------------------------------
(* Dragging and nudging: SpecDrag.  Two 1920 x 1080 monitors side by side  *)
(* on an 80 x 24 terminal; the user presses, moves and releases the left   *)
(* button, changes the selection, nudges, cycles the snap mode, opens and  *)
(* closes the help overlay, and reverts, which reloads the monitors.       *)

DragReports ==
    { Named(<< Mon(1920, 1080, <<1, 1>>, 0, 0, TRUE, 0),
               Mon(1920, 1080, <<1, 1>>, 1920, 0, TRUE, 0) >>) }

InitDrag ==
    /\ SessionStart
    /\ tty = <<80, 24>>
    /\ hypr \in DragReports

NextDrag ==
    \/ MonitorsLoaded
    \/ WindowSizeReply
    \/ Reverted
    \/ LeftPress
    \/ LeftRelease
    \/ Motion
    \/ KeyTab
    \/ KeyRight
    \/ KeySnap
    \/ KeyHelp
    \/ KeyEsc
    \/ KeyRevert

SpecDrag == InitDrag /\ [][NextDrag]_vars

\* the last message Update handled was the release of the left button
LeftReleaseHandled ==
    /\ ret.op = "Update"
    /\ ret.msg = [type |-> "MouseMsg", Action |-> "release", Button |-> "left"]

\* C11: while the monitor list is not empty the canvas holds every monitor
\* and the padding: World.Width >= X + effective width + 500 and
\* World.Height >= Y + effective height + 500
C11_CanvasContainsMonitors ==
    \A i \in 1 .. Len(Monitors) :
        LET eff == getEffectiveDimensions(Monitors[i])
        IN  /\ World.Width >= Monitors[i].X + eff[1] + worldPaddingPx
            /\ World.Height >= Monitors[i].Y + eff[2] + worldPaddingPx

\* C17: once the release of the left button has been handled no monitor is
\* being dragged
C17_ReleaseEndsEveryDrag ==
    LeftReleaseHandled => \A i \in 1 .. Len(Monitors) : ~Monitors[i].Dragging

\* C18: once the release of the left button has been handled the guide list
\* is empty
C18_ReleaseClearsGuides ==
    LeftReleaseHandled => Guides = << >>

-----------------------------------------------------------------------------
(* The terminal size: SpecViewport.  The terminal is resized, monitors are *)
(* loaded and reloaded after a revert, a load may fail, and keys and       *)
(* presses are handled in between, with the help overlay open or closed.   *)

InitViewport ==
    /\ SessionStart
    /\ tty \in TtySizes
    /\ hypr \in DragReports

NextViewport ==
    \/ MonitorsLoaded
    \/ LoadFailed
    \/ WindowSizeReply
    \/ Resize
    \/ Reverted
    \/ KeyRevert
    \/ KeyHelp
    \/ KeyEsc
    \/ KeyTab
    \/ LeftPress
    \/ LeftRelease

SpecViewport == InitViewport /\ [][NextViewport]_vars

\* C16: once a window size has been notified, whenever Update has handled a
\* mouse or key message World.TermW and World.TermH are the width and
\* height of the most recent notification
C16_ViewportTracksTerminal ==
    (/\ ret.op = "Update"
     /\ ret.msg.type \in {"MouseMsg", "KeyMsg"}
     /\ notified # NoSize)
    => World.TermW = notified[1] /\ World.TermH = notified[2]

-----------------------------------------------------------------------------
(* Apply in the background: SpecApply.  The A key starts the apply         *)
(* command; its goroutine walks the slice it was given while the event     *)
(* loop goes on handling nudges, selection changes and a revert with its   *)
(* reload.                                                                 *)

InitApply ==
    /\ SessionStart
    /\ tty = <<80, 24>>
    /\ hypr \in DragReports

NextApply ==
    \/ MonitorsLoaded
    \/ WindowSizeReply
    \/ RollbackStart
    \/ Reverted
    \/ KeyApply
    \/ ApplyStep
    \/ Applied
    \/ KeyRight
    \/ KeyTab
    \/ KeyRevert

SpecApply == InitApply /\ [][NextApply]_vars

\* what applyMonitor sends for a monitor
ConfigOf(mon) ==
    [PxW |-> mon.PxW, PxH |-> mon.PxH, Scale |-> mon.Scale, X |-> mon.X,
     Y |-> mon.Y, Active |-> mon.Active, Transform |-> mon.Transform]

\* C19: what a running apply command has sent for monitors 1..n is the
\* monitor list as it was when the A key was handled
C19_ApplySendsSnapshot ==
    \A c \in pending :
        c.cmd = "apply" =>
            \A i \in 1 .. Len(c.sent) : ConfigOf(c.sent[i]) = ConfigOf(c.snapshot[i])

-----------------------------------------------------------------------------
(* The grid: SpecGrid.  Two monitors side by side or one above the other;  *)
(* the user drags with the left button, nudges to the right, changes the   *)
(* selection and cycles the grid size; snapping stays off.                 *)

\* a 1920 x 1080 monitor with a second one to its right or below it
GridReports ==
    DragReports \cup
    { Named(<< Mon(1920, 1080, <<1, 1>>, 0, 0, TRUE, 0),
               Mon(1920, 1080, <<1, 1>>, 0, 1080, TRUE, 0) >>) }

InitGrid ==
    /\ SessionStart
    /\ tty = <<80, 24>>
    /\ hypr \in GridReports

NextGrid ==
    \/ MonitorsLoaded
    \/ WindowSizeReply
    \/ LeftPress
    \/ LeftRelease
    \/ Motion
    \/ KeyTab
    \/ KeyRight
    \/ KeyGrid

SpecGrid == InitGrid /\ [][NextGrid]_vars

\* monitor i is at another position after the step
Moved(i) ==
    /\ i <= Len(Monitors')
    /\ <<Monitors'[i].X, Monitors'[i].Y>> # <<Monitors[i].X, Monitors[i].Y>>

OnGrid(mon, grid) == mon.X % grid = 0 /\ mon.Y % grid = 0

\* the step handles a pointer motion
MotionHandled ==
    /\ ret'.op = "Update"
    /\ ret'.msg = [type |-> "MouseMsg", Action |-> "motion", Button |-> "none"]

\* the step handles a key
KeyHandled == ret'.op = "Update" /\ ret'.msg.type = "KeyMsg"

\* C21: with GridPx > 1 and snap off, a monitor moved by a drag motion or
\* by a nudge key is at a position whose X and Y are multiples of GridPx
C21_MovedOntoGrid ==
    [][(GridPx > 1 /\ Snap = SnapOff /\ (MotionHandled \/ KeyHandled))
       => \A i \in 1 .. Len(Monitors) : Moved(i) => OnGrid(Monitors'[i], GridPx)]_vars

-----------------------------------------------------------------------------
(* Mirror chains: SpecMirror.  wouldCreateCircularMirror as a pure         *)
(* function of the two names and the monitor list.  The lists hold up to   *)
(* MaxMirrorMonitors monitors with distinct names; a monitor mirrors       *)
(* nothing, another monitor of the list, itself, or a name that is not in  *)
(* the list, so that chains end, meet a given monitor or run into a cycle. *)

\* the fields of Monitor the mirror functions read
MirrorMon(name, w, h, active, isMirrored, mirrorSource) ==
    [Name |-> name, PxW |-> w, PxH |-> h, Active |-> active,
     IsMirrored |-> isMirrored, MirrorSource |-> mirrorSource]

MaxMirrorMonitors == 3

\* what a monitor's IsMirrored and MirrorSource can be among n monitors
MirrorSettings(n) ==
    { <<FALSE, << >> >>, <<TRUE, << >> >>, <<FALSE, ConnectorNames[1]>> } \cup
    { <<TRUE, name>> : name \in { ConnectorNames[k] : k \in 1 .. n } \cup {AbsentName} }

\* the lists of n 1920 x 1080 active monitors named after the connectors
MirrorLists(n) ==
    { [i \in 1 .. n |-> MirrorMon(ConnectorNames[i], 1920, 1080, TRUE,
                                  f[i][1], f[i][2])] :
        f \in [1 .. n -> MirrorSettings(n)] }

InitMirror ==
    /\ Monitors \in UNION { MirrorLists(n) : n \in 0 .. MaxMirrorMonitors }
    /\ Selected = 0
    /\ Snap = SnapOff
    /\ SnapThresh = 10
    /\ World = updateWorld(<< >>)
    /\ Guides = << >>
    /\ ret = NoCall
    /\ IdleUI

CallWouldCreateCircularMirror ==
    /\ ret = NoCall
    /\ \E currentMonitor, sourceMonitor \in
              { Monitors[i].Name : i \in 1 .. Len(Monitors) } \cup {AbsentName} :
          ret' = [op |-> "wouldCreateCircularMirror",
                  currentMonitor |-> currentMonitor,
                  sourceMonitor |-> sourceMonitor,
                  result |-> wouldCreateCircularMirror(currentMonitor, sourceMonitor,
                                                       Monitors)]
    /\ UNCHANGED <<Monitors, Selected, Snap, SnapThresh, World, Guides, uiVars>>

NextMirror == CallWouldCreateCircularMirror

SpecMirror == InitMirror /\ [][NextMirror]_vars

\* the monitor of the list called name mirrors another name
IsMirroring(name) ==
    \E i \in 1 .. Len(Monitors) :
        /\ Monitors[i].Name = name
        /\ Monitors[i].IsMirrored
        /\ Monitors[i].MirrorSource # << >>

\* what the monitor called name mirrors
SourceOf(name) ==
    (CHOOSE mon \in { Monitors[i] : i \in 1 .. Len(Monitors) } : mon.Name = name)
        .MirrorSource

\* the names on the mirror chain that starts at the names of S: the least
\* set that holds S and, with a mirroring monitor, what it mirrors
RECURSIVE ChainFrom(_)
ChainFrom(S) ==
    LET T == S \cup { SourceOf(name) : name \in { x \in S : IsMirroring(x) } }
    IN  IF T = S THEN S ELSE ChainFrom(T)

\* C22: wouldCreateCircularMirror returns true exactly when the mirror chain
\* from the source holds the current monitor or never ends (every monitor on
\* it mirrors another one, so one of them is visited again), and false when
\* the chain ends at a monitor that mirrors nothing without holding the
\* current one
C22_CircularIffChainMeetsOrCycles ==
    ret.op = "wouldCreateCircularMirror" =>
        LET chain == ChainFrom({ret.sourceMonitor})
        IN  ret.result <=>
                \/ ret.currentMonitor \in chain
                \/ \A name \in chain : IsMirroring(name)

\* a chain of three monitors: the third mirrors the second, the second the
\* first, and the first is asked to mirror the third
C22_Witness ==
    /\ ret.op = "wouldCreateCircularMirror"
    /\ Len(Monitors) = 3
    /\ ~IsMirroring(ret.currentMonitor)
    /\ ret.currentMonitor # ret.sourceMonitor
    /\ IsMirroring(ret.sourceMonitor)
    /\ SourceOf(ret.sourceMonitor) # ret.currentMonitor
    /\ IsMirroring(SourceOf(ret.sourceMonitor))
    /\ SourceOf(SourceOf(ret.sourceMonitor)) = ret.currentMonitor
    /\ ret.result

-----------------------------------------------------------------------------
(* Mirror warnings: SpecValidate.  validateMirrorConfiguration as a pure   *)
(* function of the monitor list.  Up to MaxValidateMonitors distinctly     *)
(* named monitors of two resolutions, active or not, with every mirror     *)
(* setting, and the lists of one monitor more in which all the others      *)
(* mirror the first.                                                       *)

Warning(kind, mon, source) == [kind |-> kind, mon |-> mon.Name, source |-> source.Name]

\* the inner loop of the resolution check: the first monitor called
\* mon.MirrorSource decides, and ends the search
RECURSIVE mismatchInner(_, _, _, _)
mismatchInner(j, mon, monitors, warnings) ==
    IF j > Len(monitors) THEN warnings
    ELSE LET source == monitors[j]
         IN  IF source.Name = mon.MirrorSource
             THEN IF mon.PxW # source.PxW \/ mon.PxH # source.PxH
                  THEN Append(warnings, Warning("mismatch", mon, source))
                  ELSE warnings
             ELSE mismatchInner(j + 1, mon, monitors, warnings)

\* a variant whose second pass skips a monitor the first pass has reported
RECURSIVE disabledInner_UnlessReported(_, _, _, _)
disabledInner_UnlessReported(j, mon, monitors, warnings) ==
    IF j > Len(monitors) THEN warnings
    ELSE LET source == monitors[j]
         IN  IF source.Name = mon.MirrorSource /\ ~source.Active
             THEN IF \E k \in 1 .. Len(warnings) : warnings[k].mon = mon.Name
                  THEN warnings
                  ELSE Append(warnings, Warning("disabled", mon, source))
             ELSE disabledInner_UnlessReported(j + 1, mon, monitors, warnings)

\* the inner loop of the disabled check: the first inactive monitor called
\* mon.MirrorSource is reported, and ends the search
RECURSIVE disabledInner(_, _, _, _)
disabledInner(j, mon, monitors, warnings) ==
    IF j > Len(monitors) THEN warnings
    ELSE LET source == monitors[j]
         IN  IF source.Name = mon.MirrorSource /\ ~source.Active
             THEN Append(warnings, Warning("disabled", mon, source))
             ELSE disabledInner(j + 1, mon, monitors, warnings)

\* the two outer loops: pass 1 is the resolution check, pass 2 the
\* disabled check
RECURSIVE validateLoop(_, _, _, _)
validateLoop(pass, i, monitors, warnings) ==
    IF i > Len(monitors)
    THEN IF pass = 1 THEN validateLoop(2, 1, monitors, warnings) ELSE warnings
    ELSE LET mon == monitors[i]
         IN  validateLoop(pass, i + 1, monitors,
                 IF mon.IsMirrored /\ mon.MirrorSource # << >>
                 THEN IF pass = 1
                      THEN mismatchInner(1, mon, monitors, warnings)
                      ELSE disabledInner(1, mon, monitors, warnings)
                 ELSE warnings)

validateMirrorConfiguration(monitors) == validateLoop(1, 1, monitors, << >>)

MaxValidateMonitors == 2

Resolutions == { <<1920, 1080>>, <<1920, 1200>> }

\* the lists of n monitors whose mirror settings are drawn from settings
ValidateLists(n, settings) ==
    { [i \in 1 .. n |-> MirrorMon(ConnectorNames[i], f[i][1][1], f[i][1][2],
                                  f[i][2], f[i][3][1], f[i][3][2])] :
        f \in [1 .. n -> Resolutions \X BOOLEAN \X settings] }

\* the lists of n monitors in which all but the first mirror the first
StarLists(n) ==
    { l \in ValidateLists(n, { <<FALSE, << >> >>, <<TRUE, ConnectorNames[1]>> }) :
        /\ ~l[1].IsMirrored
        /\ \A i \in 2 .. n : l[i].IsMirrored }

InitValidate ==
    /\ Monitors \in
         UNION { ValidateLists(n, MirrorSettings(n)) : n \in 0 .. MaxValidateMonitors }
         \cup StarLists(MaxValidateMonitors + 1)
    /\ Selected = 0
    /\ Snap = SnapOff
    /\ SnapThresh = 10
    /\ World = updateWorld(<< >>)
    /\ Guides = << >>
    /\ ret = NoCall
    /\ IdleUI

CallValidateMirrorConfiguration ==
    /\ ret = NoCall
    /\ ret' = [op |-> "validateMirrorConfiguration",
               result |-> validateMirrorConfiguration(Monitors)]
    /\ UNCHANGED <<Monitors, Selected, Snap, SnapThresh, World, Guides, uiVars>>

NextValidate == CallValidateMirrorConfiguration

SpecValidate == InitValidate /\ [][NextValidate]_vars

\* monitor i mirrors monitor j of the list
MirrorsMonitor(i, j) ==
    /\ Monitors[i].IsMirrored
    /\ Monitors[i].MirrorSource # << >>
    /\ Monitors[j].Name = Monitors[i].MirrorSource

\* the warnings the list calls for: one for a source of another
\* resolution, one for an inactive source
Expected ==
    { Warning("mismatch", Monitors[i], Monitors[j]) :
        <<i, j>> \in { p \in (1 .. Len(Monitors)) \X (1 .. Len(Monitors)) :
                          /\ MirrorsMonitor(p[1], p[2])
                          /\ <<Monitors[p[1]].PxW, Monitors[p[1]].PxH>> #
                             <<Monitors[p[2]].PxW, Monitors[p[2]].PxH>> } }
    \cup
    { Warning("disabled", Monitors[i], Monitors[j]) :
        <<i, j>> \in { p \in (1 .. Len(Monitors)) \X (1 .. Len(Monitors)) :
                          MirrorsMonitor(p[1], p[2]) /\ ~Monitors[p[2]].Active } }

\* C23: validateMirrorConfiguration returns each expected warning exactly
\* once and nothing else: one per mirroring monitor whose source in the
\* list has another resolution, one per mirroring monitor whose source in
\* the list is inactive
C23_OneWarningPerFinding ==
    ret.op = "validateMirrorConfiguration" =>
        /\ { ret.result[k] : k \in 1 .. Len(ret.result) } = Expected
        /\ Len(ret.result) = Cardinality(Expected)

\* two monitors mirror an inactive first monitor of another resolution:
\* four warnings
C23_Witness ==
    /\ ret.op = "validateMirrorConfiguration"
    /\ Len(Monitors) = 3
    /\ ~Monitors[1].Active
    /\ \A i \in 2 .. 3 :
          MirrorsMonitor(i, 1) /\ Monitors[i].PxH # Monitors[1].PxH
    /\ Len(ret.result) = 4

-----------------------------------------------------------------------------
(* applyMonitor as a pure function: SpecApplyMonitor.  One monitor whose   *)
(* name and mirror source are drawn from the empty name, the names of one  *)
(* rune on either side of each limit of isValidMonitorName, the names of   *)
(* up to MaxNameLen runes over 'a' and ';', and three connector names;     *)
(* its color mode is a valid one or not; the command succeeds or fails.    *)

MaxNameLen == 2

\* '-' '.' '/' '0' '9' ':' '@' 'A' 'Z' '[' '_' '`' 'a' 'z' '{', and ' ' ';' '$'
BoundaryChars == {45, 46, 47, 48, 57, 58, 64, 65, 90, 91, 95, 96, 97, 122, 123, 32, 59, 36}

TestNames ==
    { << >> } \cup { <<c>> : c \in BoundaryChars }
    \cup UNION { [1 .. n -> {97, 59}] : n \in 2 .. MaxNameLen }
    \cup { ConnectorNames[k] : k \in 1 .. 3 }

\* the last two are no keys of validModes
TestColorModes == {"", "auto", "srgb", "wide", "edid", "hdr", "hdredid", "HDR", "hdr;reboot"}

\* a monitor's Name, and its mirror setting: none, or one with IsMirrored
\* set or with a source of each kind
ApplyInputs ==
    { [Mon(1920, 1080, <<1, 1>>, 0, 0, active, 0) EXCEPT
         !.Name = name, !.ColorMode = mode,
         !.IsMirrored = mirror[1], !.MirrorSource = mirror[2]] :
        name \in TestNames, mode \in {"", "hdr", "HDR", "hdr;reboot"},
        active \in BOOLEAN,
        mirror \in { <<FALSE, << >> >>, <<FALSE, <<59>> >> }
                   \cup { <<TRUE, source>> : source \in TestNames } }
    \cup
    { [Mon(1920, 1080, <<1, 1>>, 0, 0, TRUE, 0) EXCEPT
         !.Name = ConnectorNames[1], !.ColorMode = mode] : mode \in TestColorModes }

ExecErrors == {"", "exit status 1"}

InitApplyMonitor ==
    /\ Monitors \in { <<m>> : m \in ApplyInputs }
    /\ Selected = 0
    /\ Snap = SnapOff
    /\ SnapThresh = 10
    /\ World = updateWorld(<< >>)
    /\ Guides = << >>
    /\ ret = NoCall
    /\ IdleUI

CallApplyMonitor ==
    /\ ret = NoCall
    /\ \E exec \in ExecErrors :
          ret' = [op |-> "applyMonitor", result |-> applyMonitor(Monitors[1], exec)]
    /\ UNCHANGED <<Monitors, Selected, Snap, SnapThresh, World, Guides, uiVars>>

NextApplyMonitor == CallApplyMonitor

SpecApplyMonitor == InitApplyMonitor /\ [][NextApplyMonitor]_vars

\* name is not empty and holds only letters, digits, '.', '_' and '-'
SafeName(name) ==
    /\ Len(name) > 0
    /\ \A k \in 1 .. Len(name) :
          name[k] \in (65 .. 90) \cup (97 .. 122) \cup (48 .. 57) \cup {46, 95, 45}

AllowedColorModes == {"", "auto", "srgb", "wide", "edid", "hdr", "hdredid"}

CommandRun == ret.op = "applyMonitor" /\ ret.result.cmd.run

\* C29 as stated: a command is run only for a monitor whose name is safe,
\* whose mirror source name, when IsMirrored is set, is safe, and whose
\* color mode is allowed
C29_NoCommandForUnsafeMonitor ==
    CommandRun =>
        /\ SafeName(Monitors[1].Name)
        /\ Monitors[1].IsMirrored => SafeName(Monitors[1].MirrorSource)
        /\ Monitors[1].ColorMode \in AllowedColorModes

\* C29: a command is run only for a monitor whose name is safe and whose
\* color mode is allowed; the mirror source is safe when it is part of the
\* command, which it is for an active monitor with IsMirrored set and a
\* source that is not empty, and the command holds no other name and no
\* other color mode than the monitor's
C29_NoUnsafeNameInCommand ==
    CommandRun =>
        LET m == Monitors[1]
            cmd == ret.result.cmd
        IN  /\ SafeName(m.Name) /\ cmd.name = m.Name
            /\ m.ColorMode \in AllowedColorModes
            /\ cmd.cm \in {"", m.ColorMode}
            /\ (m.Active /\ m.IsMirrored /\ m.MirrorSource # << >>)
                 => SafeName(m.MirrorSource) /\ cmd.mirror = m.MirrorSource
            /\ ~(m.Active /\ m.IsMirrored /\ m.MirrorSource # << >>)
                 => cmd.mirror = << >>

\* the disable command is run for an inactive monitor whose mirror source
\* is ";"
C29_Witness ==
    /\ CommandRun
    /\ ~Monitors[1].Active
    /\ Monitors[1].IsMirrored
    /\ Monitors[1].MirrorSource = <<59>>
    /\ ret.result.cmd.disable
    /\ ret.result.cmd.mirror = << >>

-----------------------------------------------------------------------------
(* Apply and revert: SpecRevert.  Two monitors side by side are loaded;    *)
(* the user nudges them, applies the layout with A and reverts with Z,     *)
(* each of the two only while the command of the other is not running.     *)
(* A command sent to the compositor succeeds or fails.                     *)

InitRevert ==
    /\ SessionStart
    /\ tty = <<80, 24>>
    /\ hypr \in DragReports

\* no apply or revert command is running
NoneRunning == \A c \in pending : c.cmd \notin {"apply", "revert"}

NextRevert ==
    \/ MonitorsLoaded
    \/ WindowSizeReply
    \/ KeyRight
    \/ KeyTab
    \/ NoneRunning /\ KeyApply
    \/ ApplyStep
    \/ ApplyFails
    \/ Applied
    \/ NoneRunning /\ KeyRevert
    \/ RollbackStart
    \/ Reverted

SpecRevert == InitRevert /\ [][NextRevert]_vars

\* Update has handled the revertMsg of a revert command
RevertHandled == ret.op = "Update" /\ ret.msg.type = "revertMsg"

\* the compositor holds, for every monitor, the configuration of list
Holds(list) ==
    /\ Len(hypr) = Len(list)
    /\ \A i \in 1 .. Len(list) : ConfigOf(hypr[i]) = ConfigOf(list[i])

\* C24: after an Apply and a Revert that has succeeded, the compositor
\* holds the configuration it held when the Apply was made, which is, for
\* the first Apply of a session, the one the session started with
C24_RevertRestoresPrevious ==
    (RevertHandled /\ ret.msg.success /\ count.apply = 1)
    => \E start \in DragReports : Holds(start)

\* C28: when rollback has run with nothing saved, it has returned the error
\* "no previous state to rollback to" and no command has been sent to the
\* compositor
C28_RollbackWithoutSave ==
    (RevertHandled /\ ~previousMonitors.saved)
    => /\ ~ret.msg.success
       /\ ret.msg.err = "no previous state to rollback to"
       /\ count.commands = 0

\* Z is pressed after the monitors were loaded and moved, no A before it
C28_Witness ==
    /\ RevertHandled
    /\ ~previousMonitors.saved
    /\ Len(Monitors) = 2
    /\ count.move > 0
    /\ count.apply = 0

\* C30: a running applyMonitors has applied the monitors before the one it
\* is at, in list order, and the compositor holds them as sent; when
\* monitor k has failed, the error names it, and in the first apply of a
\* session monitors k+1..n have been sent no command: as many commands
\* were run as monitors were tried, and the compositor holds for k..n what
\* it held at the start
C30_StopsAtFirstFailure ==
    \A c \in pending :
        (c.cmd \in {"apply", "revert"} /\ c.started) =>
            /\ Len(c.sent) = c.next - 1
            /\ \A i \in 1 .. Len(c.sent) :
                  /\ c.sent[i].Name = c.snapshot[i].Name
                  /\ ConfigOf(hypr[i]) = ConfigOf(c.sent[i])
            /\ c.err # NoError =>
                  /\ c.next <= Len(c.snapshot)
                  /\ c.err.monitor = c.snapshot[c.next].Name
                  /\ (c.cmd = "apply" /\ count.apply = 1) =>
                        /\ count.commands = c.next
                        /\ \E start \in DragReports :
                              \A j \in c.next .. Len(start) :
                                  ConfigOf(hypr[j]) = ConfigOf(start[j])

\* both monitors were moved, the first was applied and the second failed:
\* the compositor holds the first where it was sent and the second where
\* it was
C30_Witness ==
    \E c \in pending :
        /\ c.cmd = "apply"
        /\ c.err # NoError
        /\ c.next = 2
        /\ c.err.monitor = ConnectorNames[2]
        /\ c.sent[1].X = 32 /\ hypr[1].X = 32
        /\ Monitors[2].X = 1952 /\ hypr[2].X = 1920

-----------------------------------------------------------------------------
(* Enabling and disabling: SpecToggle.  Two monitors side by side, at      *)
(* least one of them active, are loaded; the user selects one with the     *)
(* left button and toggles with Enter, Space and the right button.         *)

ToggleReports ==
    { Named(<< Mon(1920, 1080, <<1, 1>>, 0, 0, a[1], 0),
               Mon(1920, 1080, <<1, 1>>, 1920, 0, a[2], 0) >>) :
        a \in (BOOLEAN \X BOOLEAN) \ { <<FALSE, FALSE>> } }

InitToggle ==
    /\ SessionStart
    /\ tty = <<80, 24>>
    /\ hypr \in ToggleReports

NextToggle ==
    \/ MonitorsLoaded
    \/ WindowSizeReply
    \/ LeftPress
    \/ LeftRelease
    \/ RightPress
    \/ KeyEnter
    \/ KeySpace

SpecToggle == InitToggle /\ [][NextToggle]_vars

\* C25: once monitors are loaded, at least one of which is active, every
\* sequence of Enter, Space and right-button toggles leaves a monitor with
\* Active = true
C25_OneMonitorStaysActive ==
    Len(Monitors) > 0 => \E i \in 1 .. Len(Monitors) : Monitors[i].Active

\* Enter or Space has been handled with the only active monitor selected,
\* and it is still active
C25_Witness ==
    /\ ret.op = "Update" /\ ret.msg.type = "KeyMsg"
    /\ Len(Monitors) = 2
    /\ Selected = 1
    /\ ~Monitors[1].Active
    /\ Monitors[2].Active

-----------------------------------------------------------------------------
(* Drag gestures: SpecGesture.  Two monitors side by side; the user        *)
(* presses and releases the left button, moves the pointer and changes the *)
(* selection with Tab.  count.held is the set of monitors (Go indices) hit  *)
(* by a press of the left button since the last release of it.             *)

\* a press of the left button, which hits a monitor or none
GesturePress ==
    \E x \in PressCols, y \in PressRows :
        /\ Deliver(MouseMsg("press", "left", x, y), {})
        /\ count' = [count EXCEPT !.held = @ \cup ({hitTest(x, y - 2)} \ {-1})]
        /\ UNCHANGED <<tty, notified, hypr>>

\* a release of the left button
GestureRelease ==
    /\ Deliver(MouseMsg("release", "left", 0, 0), {})
    /\ count' = [count EXCEPT !.held = {}]
    /\ UNCHANGED <<tty, notified, hypr>>

InitGesture ==
    /\ SessionStart
    /\ tty = <<80, 24>>
    /\ hypr \in DragReports

NextGesture ==
    \/ MonitorsLoaded
    \/ WindowSizeReply
    \/ GesturePress
    \/ GestureRelease
    \/ Motion
    \/ KeyTab

SpecGesture == InitGesture /\ [][NextGesture]_vars

\* C26: a pointer motion moves monitor i only if a press of the left
\* button that hit monitor i has been handled and no release of the left
\* button has been handled since
C26_MotionMovesOnlyInGesture ==
    [][MotionHandled =>
         \A i \in 1 .. Len(Monitors) : Moved(i) => i - 1 \in count.held]_vars

-----------------------------------------------------------------------------
(* The advanced dialog, cancelled: SpecCancel.  One monitor; the user      *)
(* opens the dialog, moves the focus, toggles and adjusts fields and       *)
(* closes the dialog with Esc.  count.shown holds the advanced fields of   *)
(* the monitor as they were when the dialog was last shown.                *)

AdvancedFields(mon) ==
    [BitDepth |-> mon.BitDepth, ColorMode |-> mon.ColorMode,
     SDRBrightness |-> mon.SDRBrightness, SDRSaturation |-> mon.SDRSaturation,
     VRR |-> mon.VRR, Transform |-> mon.Transform]

\* the "c" key while no overlay is open
DialogShown ==
    /\ ~ShowAdvancedSettings
    /\ Deliver(KeyMsg("c"), {})
    /\ count' = [count EXCEPT !.shown =
                    IF ShowAdvancedSettings'
                    THEN AdvancedFields(Monitors'[AdvancedSettings'.monitor + 1])
                    ELSE @]
    /\ UNCHANGED <<tty, notified, hypr>>

\* the space bar in the dialog
DialogToggle ==
    /\ ShowAdvancedSettings
    /\ Spend("toggle", MaxToggles)
    /\ Deliver(KeyMsg(" "), {})
    /\ UNCHANGED <<tty, notified, hypr>>

InitCancel ==
    /\ SessionStart
    /\ tty = <<80, 24>>
    /\ hypr \in ScaleReports

NextCancel ==
    \/ MonitorsLoaded
    \/ DialogShown
    \/ DialogToggle
    \/ ShowAdvancedSettings /\ KeyDown
    \/ ShowAdvancedSettings /\ KeyUp
    \/ ShowAdvancedSettings /\ KeyLeft
    \/ ShowAdvancedSettings /\ KeyRight
    \/ ShowAdvancedSettings /\ KeyEsc

SpecCancel == InitCancel /\ [][NextCancel]_vars

\* C27: Esc in the advanced dialog leaves the monitor's BitDepth,
\* ColorMode, SDRBrightness, SDRSaturation, VRR and Transform as they were
\* when the dialog was shown
C27_EscRestoresShownValues ==
    [][(ShowAdvancedSettings /\ KeyEsc) =>
         AdvancedFields(Monitors'[AdvancedSettings.monitor + 1]) = count.shown]_vars

-----------------------------------------------------------------------------
(* The selection: SpecSelect.  Up to three monitors in a row; monitors are *)
(* plugged and unplugged while the session runs, and the list is read      *)
(* again after every revert.  The user changes the selection with Tab,     *)
(* Shift+Tab and the left button, and opens and closes the help overlay.   *)

SelectRow ==
    Named(<< Mon(1920, 1080, <<1, 1>>, 0, 0, TRUE, 0),
             Mon(1920, 1080, <<1, 1>>, 1920, 0, TRUE, 0),
             Mon(1920, 1080, <<1, 1>>, 3840, 0, TRUE, 0) >>)

\* no monitor, or the first one, two or three of the row
SelectReports == { SubSeq(SelectRow, 1, n) : n \in 0 .. Len(SelectRow) }

\* a monitor is plugged or unplugged: the compositor reports another list
HotPlug ==
    /\ hypr' \in SelectReports \ {hypr}
    /\ UNCHANGED <<Monitors, Selected, Snap, SnapThresh, World, Guides, ret,
                   GridPx, overlayVars, ProfileInput, ScalePicker, ModePicker,
                   MirrorPicker, AdvancedSettings, pending,
                   tty, notified, previousMonitors, count>>

InitSelect ==
    /\ SessionStart
    /\ tty = <<80, 24>>
    /\ hypr \in SelectReports

NextSelect ==
    \/ MonitorsLoaded
    \/ LoadFailed
    \/ WindowSizeReply
    \/ HotPlug
    \/ KeyTab
    \/ KeyShiftTab
    \/ GesturePress
    \/ GestureRelease
    \/ KeyHelp
    \/ KeyEsc
    \/ KeyRevert
    \/ Reverted

SpecSelect == InitSelect /\ [][NextSelect]_vars

\* C35: whenever the monitor list is not empty, Selected is an index of it
C35_SelectedInRange ==
    Len(Monitors) > 0 => (0 <= Selected /\ Selected < Len(Monitors))

\* the left button was pressed on the second of two or three monitors and
\* is still held, and the list read again after a revert has one monitor
C35_Witness ==
    /\ ret.op = "Update" /\ ret.msg.type = "initMsg"
    /\ count.revert > 0 /\ 1 \in count.held
    /\ Len(Monitors) = 1 /\ Selected = 0

-----------------------------------------------------------------------------
(* The mirror picker: SpecPicker.  Three monitors, none of them mirrored   *)
(* or the third mirroring the first when the session starts.  The user     *)
(* changes the selection with Tab, opens the mirror picker, moves in it,   *)
(* selects or cancels, and toggles monitors with Enter; the picker's        *)
(* commands complete in any order.                                         *)

PickerRow == SelectRow

PickerReports ==
    { PickerRow,
      [PickerRow EXCEPT ![3].IsMirrored = TRUE, ![3].MirrorSource = PickerRow[1].Name] }

InitPicker ==
    /\ SessionStart
    /\ tty = <<80, 24>>
    /\ hypr \in PickerReports

NextPicker ==
    \/ MonitorsLoaded
    \/ KeyTab
    \/ KeyMirror
    \/ ShowMirrorPicker /\ KeyDown
    \/ ShowMirrorPicker /\ KeyUp
    \/ KeyEnter
    \/ ShowMirrorPicker /\ KeyEsc
    \/ MirrorSelected
    \/ MirrorCancelled

SpecPicker == InitPicker /\ [][NextPicker]_vars

\* C31: the relation from a monitor to its mirror source has no cycle, and
\* no monitor mirrors itself
C31_NoCircularMirror ==
    \A i \in 1 .. Len(Monitors) :
        IsMirroring(Monitors[i].Name) =>
            Monitors[i].Name \notin ChainFrom({Monitors[i].MirrorSource})

\* C32: every mirrored monitor names as its source a monitor of the list
\* that is active and not mirrored
C32_SourcesActiveUnmirrored ==
    \A i \in 1 .. Len(Monitors) :
        Monitors[i].IsMirrored =>
            \E j \in 1 .. Len(Monitors) :
                /\ Monitors[j].Name = Monitors[i].MirrorSource
                /\ Monitors[j].Active
                /\ ~Monitors[j].IsMirrored

\* how often name occurs in targets
Occurrences(targets, name) ==
    Cardinality({ k \in 1 .. Len(targets) : targets[k] = name })

\* C33: monitor b is among the MirrorTargets of monitor a, once, exactly
\* when b is mirrored and its MirrorSource is a's name
C33_TargetsMatchSources ==
    \A a, b \in 1 .. Len(Monitors) :
        Occurrences(Monitors[a].MirrorTargets, Monitors[b].Name) =
            IF Monitors[b].IsMirrored /\ Monitors[b].MirrorSource = Monitors[a].Name
            THEN 1 ELSE 0

\* a selection has been handled after which the third monitor, which
\* mirrored the first when the session started, mirrors the second together
\* with the first
C33_Witness ==
    /\ ret.op = "Update" /\ ret.msg.type = "mirrorSelectedMsg"
    /\ hypr[3].IsMirrored
    /\ Monitors[1].MirrorTargets = << >>
    /\ Monitors[1].IsMirrored /\ Monitors[3].IsMirrored
    /\ Len(Monitors[2].MirrorTargets) = 2

-----------------------------------------------------------------------------
(* Overlays: SpecOverlay.  A session over two monitors in which every      *)
(* overlay is opened and closed: the help text, the profile name input,    *)
(* the scale, mode and mirror pickers and the advanced settings.  The      *)
(* commands of the pickers and of the input complete in any order with     *)
(* respect to the keys; at most MaxInFlight of them run at a time.         *)

MaxInFlight == 2
MaxInput == 1
MaxOpens == 2

OverlayRow == SubSeq(SelectRow, 1, 2)

\* what listProfiles() may return: no profile, or a profile called "y"
ProfileListings == { {}, {<<121>>} }

\* what hyprctl may list for a monitor: nothing, or 720p and 1080p
ModeLists == { << >>, <<DisplayMode(1280, 720), DisplayMode(1920, 1080)>> }

HyprctlReads ==
    {[err |-> TRUE, modes |-> << >>]}
        \cup { [err |-> FALSE, modes |-> l] : l \in ModeLists }

\* "r" opens the scale picker when it reaches the main view
TypedKeys == {"y", "r"}
EditKeys == {"backspace", "left"}

\* the user presses a key only while few commands of overlays are running
Calm == Cardinality(pending \ {LoadCmd, WindowSizeCmd}) < MaxInFlight

\* the keys that open an overlay from the main view, "f" apart
OpenKeys == {"?", "p", "r", "m", "c"}

\* one of them is pressed, whatever is shown but the profile input, where
\* the keys typed are those of ProfileType
OpenOverlay ==
    \E k \in OpenKeys :
        /\ Spend("opened", MaxOpens)
        /\ ~ShowProfileInput
        /\ Deliver(KeyMsg(k), {})
        /\ UNCHANGED <<tty, notified, hypr>>

\* "f" is pressed: in the main view getAvailableModes asks hyprctl
KeyMode ==
    \E read \in HyprctlReads :
        /\ Spend("opened", MaxOpens)
        /\ ~ShowProfileInput
        /\ Deliver([type |-> "KeyMsg", key |-> "f", hyprctl |-> read], {})
        /\ UNCHANGED <<tty, notified, hypr>>

\* a character typed into the profile input, or an answer to its question
ProfileType ==
    \E k \in TypedKeys :
        /\ ShowProfileInput
        /\ ProfileInput.confirmOverride \/ Len(ProfileInput.input) < MaxInput
        /\ Deliver(KeyMsg(k), {})
        /\ UNCHANGED envVars

ProfileEdit ==
    \E k \in EditKeys :
        /\ ShowProfileInput
        /\ Deliver(KeyMsg(k), {})
        /\ UNCHANGED envVars

\* "enter" in the profile input: the handler calls listProfiles()
ProfileEnter ==
    \E listed \in ProfileListings :
        /\ ShowProfileInput
        /\ Deliver([type |-> "KeyMsg", key |-> "enter", profiles |-> listed], {})
        /\ UNCHANGED envVars

ProfileSaved ==
    \E c \in pending :
        /\ c.cmd = "profileSave"
        /\ Deliver([type |-> "profileSaveMsg", name |-> c.name], {c})
        /\ UNCHANGED envVars

ProfileCancelled ==
    /\ ProfileInputCancelCmd \in pending
    /\ Deliver([type |-> "profileInputCancelMsg"], {ProfileInputCancelCmd})
    /\ UNCHANGED envVars

ModeSelected ==
    \E c \in pending :
        /\ c.cmd = "modeSelected"
        /\ Deliver([type |-> "modeSelectedMsg", mode |-> c.mode], {c})
        /\ UNCHANGED envVars

ModeCancelled ==
    /\ ModeCancelledCmd \in pending
    /\ Deliver([type |-> "modeCancelledMsg"], {ModeCancelledCmd})
    /\ UNCHANGED envVars

\* "1" in the mode picker
ModeQuick == ShowModePicker /\ Deliver(KeyMsg("1"), {}) /\ UNCHANGED envVars

InitOverlay ==
    /\ SessionStart
    /\ tty = <<80, 24>>
    /\ hypr = OverlayRow

NextOverlay ==
    \/ MonitorsLoaded
    \/ Calm /\ OpenOverlay
    \/ Calm /\ KeyMode
    \/ Calm /\ KeyEsc
    \/ Calm /\ overlay # "none" /\ KeyEnter
    \/ Calm /\ (ShowModePicker \/ ShowMirrorPicker) /\ KeyDown
    \/ Calm /\ ProfileType
    \/ Calm /\ ProfileEdit
    \/ Calm /\ ProfileEnter
    \/ Calm /\ ModeQuick
    \/ ProfileSaved
    \/ ProfileCancelled
    \/ ScaleSelected
    \/ ScaleCancelled
    \/ ModeSelected
    \/ ModeCancelled
    \/ MirrorSelected
    \/ MirrorCancelled

SpecOverlay == InitOverlay /\ [][NextOverlay]_vars

\* the overlays shown
Showing ==
    { i \in 1 .. Len(overlayVars) : overlayVars[i] }

\* C34: at most one overlay is shown at a time: in every reachable state at
\* most one of ShowHelp, ShowProfileInput, ShowScalePicker, ShowModePicker,
\* ShowMirrorPicker and ShowAdvancedSettings is true.
C34_AtMostOneOverlay == Cardinality(Showing) <= 1

\* the profile input asks whether to overwrite a profile, after the mirror
\* picker has been opened and closed, and while a command of that picker
\* is still running
C34_Witness ==
    /\ ShowProfileInput /\ ProfileInput.confirmOverride
    /\ MirrorPicker # NoMirrorPicker
    /\ MirrorCancelledCmd \in pending

=============================================================================
